---- MODULE Spec2Model ----
(***************************************************************************)
(* ECAD-processor: the archive pipeline.                                   *)
(*                                                                         *)
(* ArchiveProcessor::process_data folds the data rows of one archive into  *)
(* a (station_id, date) -> WeatherRecord map; MultiArchiveProcessor::      *)
(* process_unified_data runs one such task per archive on the runtime,     *)
(* collects the results in completion order and merges them by key.        *)
(*                                                                         *)
(* Conventions.  Option<T> is a sequence of length 0 (None) or 1 (Some).   *)
(* f32 metric values are kept in tenths of the unit (the integer of the    *)
(* file), so 1.0 is 10 and -90.0 is -900.  A String is the sequence of its *)
(* characters, a decimal digit being the integer 0..9.  A text field of a  *)
(* data row is <<n>> when it is the decimal text of n and <<>> when it is  *)
(* not a number.  Dates are day numbers, ordered as NaiveDate is.          *)
(***************************************************************************)
EXTENDS Integers, Sequences, FiniteSets, TLC

None == <<>>
Some(v) == <<v>>
IsSome(o) == o # <<>>
Unwrap(o) == o[1]

(***************************************************************************)
(* Bounds of the model.                                                    *)
(***************************************************************************)
\* archives in the directory
NumArchives == 2
\* worker threads of the runtime
RuntimeThreads == 2
\* the max_workers the processor is built with
MaxWorkers == 1

(***************************************************************************)
(* Strings                                                                 *)
(***************************************************************************)
\* u8::to_string
U8ToString(n) ==
  IF n < 10 THEN <<n>>
  ELSE IF n < 100 THEN <<n \div 10, n % 10>>
  ELSE <<n \div 100, (n \div 10) % 10, n % 10>>

\* str::contains(&str)
Contains(s, sub) ==
  \E i \in 0..Len(s) :
     /\ i + Len(sub) <= Len(s)
     /\ \A j \in 1..Len(sub) : s[i + j] = sub[j]

\* str::contains(char)
ContainsChar(s, c) == \E i \in 1..Len(s) : s[i] = c

(***************************************************************************)
(* WeatherRecord and its physical validation (models/weather.rs)           *)
(***************************************************************************)
\* The station catalog (stations.txt).  Station 3 is named by data files
\* but is absent from the catalog.
StationCatalog ==
  [s \in {1, 2} |->
     [staid |-> s, name |-> <<s>>, latitude |-> 515, longitude |-> -1]]

\* WeatherRecord::new with every optional field None
EmptyRecord(station, date) ==
  [station_id |-> station.staid, station_name |-> station.name, date |-> date,
   latitude |-> station.latitude, longitude |-> station.longitude,
   temp_min |-> None, temp_max |-> None, temp_avg |-> None,
   precipitation |-> None, wind_speed |-> None,
   temp_quality |-> None, precip_quality |-> None, wind_quality |-> None,
   temp_validation |-> None, precip_validation |-> None,
   wind_validation |-> None]

\* first non-Valid assessment in [temp_min, temp_max, temp_avg] order
RECURSIVE TempScan(_)
TempScan(temps) ==
  IF temps = <<>> THEN Some("Valid")
  ELSE IF Head(temps) < -900 \/ Head(temps) > 600 THEN Some("Invalid")
  ELSE IF Head(temps) < -350 \/ Head(temps) > 450 THEN Some("Suspect")
  ELSE TempScan(Tail(temps))

ValidateTemperaturePhysics(r) ==
  LET existing_temps == r.temp_min \o r.temp_max \o r.temp_avg
  IN  IF existing_temps = <<>> THEN None ELSE TempScan(existing_temps)

ValidatePrecipitationPhysics(r) ==
  IF IsSome(r.precipitation)
  THEN LET precip == Unwrap(r.precipitation)
       IN  IF precip < 0 \/ precip > 20000 THEN Some("Invalid")
           ELSE IF precip > 5000 THEN Some("Suspect")
           ELSE Some("Valid")
  ELSE None

ValidateWindPhysics(r) ==
  IF IsSome(r.wind_speed)
  THEN LET wind == Unwrap(r.wind_speed)
       IN  IF wind < 0 \/ wind > 1200 THEN Some("Invalid")
           ELSE IF wind > 500 THEN Some("Suspect")
           ELSE Some("Valid")
  ELSE None

PerformPhysicalValidation(r) ==
  [r EXCEPT !.temp_validation = ValidateTemperaturePhysics(r),
            !.precip_validation = ValidatePrecipitationPhysics(r),
            !.wind_validation = ValidateWindPhysics(r)]

\* the derived validator::Validate ranges of WeatherRecord
InRange(o, lo, hi) == o = None \/ (Unwrap(o) >= lo /\ Unwrap(o) <= hi)

ValidateRanges(r) ==
  /\ r.latitude >= -900 /\ r.latitude <= 900
  /\ r.longitude >= -1800 /\ r.longitude <= 1800
  /\ InRange(r.temp_min, -500, 500)
  /\ InRange(r.temp_max, -500, 500)
  /\ InRange(r.temp_avg, -500, 500)
  /\ InRange(r.precipitation, 0, 10000)
  /\ InRange(r.wind_speed, 0, 1000)

\* variant: the tolerance of TemperatureSet (0.1) instead of 1.0
ValidateRelationshipsTightTolerance(r) ==
  IF /\ IsSome(r.temp_min) /\ IsSome(r.temp_avg) /\ IsSome(r.temp_max)
     /\ Unwrap(r.temp_min) > Unwrap(r.temp_avg) + 1
  THEN "MinTemperature"
  ELSE IF /\ IsSome(r.temp_min) /\ IsSome(r.temp_avg) /\ IsSome(r.temp_max)
          /\ Unwrap(r.temp_avg) > Unwrap(r.temp_max) + 1
  THEN "AvgTemperature"
  ELSE IF ~ValidateRanges(r) THEN "Validation"
  ELSE "Ok"

\* validate_relationships: "Ok" or the error it returns
ValidateRelationships(r) ==
  IF /\ IsSome(r.temp_min) /\ IsSome(r.temp_avg) /\ IsSome(r.temp_max)
     /\ Unwrap(r.temp_min) > Unwrap(r.temp_avg) + 10
  THEN "MinTemperature"
  ELSE IF /\ IsSome(r.temp_min) /\ IsSome(r.temp_avg) /\ IsSome(r.temp_max)
          /\ Unwrap(r.temp_avg) > Unwrap(r.temp_max) + 10
  THEN "AvgTemperature"
  ELSE IF ~ValidateRanges(r) THEN "Validation"
  ELSE "Ok"

has_valid_temperature_data(r) ==
  IsSome(r.temp_quality) /\ Unwrap(r.temp_quality) = <<0, 0, 0>>

has_valid_precipitation_data(r) ==
  IsSome(r.precip_quality) /\ Unwrap(r.precip_quality) = <<0>>

has_valid_wind_data(r) ==
  IsSome(r.wind_quality) /\ Unwrap(r.wind_quality) = <<0>>

AnyQualityContains(r, c) ==
  \/ IsSome(r.temp_quality) /\ ContainsChar(Unwrap(r.temp_quality), c)
  \/ IsSome(r.precip_quality) /\ ContainsChar(Unwrap(r.precip_quality), c)
  \/ IsSome(r.wind_quality) /\ ContainsChar(Unwrap(r.wind_quality), c)

has_suspect_data(r) == AnyQualityContains(r, 1)

has_missing_data(r) == AnyQualityContains(r, 9)

has_temperature_data(r) ==
  IsSome(r.temp_min) \/ IsSome(r.temp_max) \/ IsSome(r.temp_avg)

has_precipitation(r) == IsSome(r.precipitation)

has_wind_speed(r) == IsSome(r.wind_speed)

(***************************************************************************)
(* Data rows and their parsers                                             *)
(***************************************************************************)
\* A data line "SOUID, DATE, VALUE, Q_FLAG" after the 20 header lines.
Row(souid, date, value, flag) ==
  [nparts |-> 4, souid |-> souid, date |-> date, value |-> value,
   flag |-> flag]

\* str::parse::<u32>, ::<i32>, ::<u8>, ::<f32> and NaiveDate::parse_from_str
\* (the numbers of the model all fit 32 bits)
ParseU32(f) == IF f # <<>> /\ f[1] >= 0 THEN f ELSE None
ParseI32(f) == f
ParseU8(f) == IF f # <<>> /\ f[1] >= 0 /\ f[1] <= 255 THEN f ELSE None
ParseF32(f) == f
ParseDate(f) == IF f # <<>> /\ f[1] >= 1 THEN f ELSE None

\* variant: no value text is taken as the missing-value sentinel
IsSentinelNever(f) == FALSE

\* the text "-9999"
IsSentinel(f) == f = <<-9999>>

\* QualityFlag::from_u8 succeeds
QualityFlagFromU8Ok(v) == v \in {0, 1, 9}

ErrResult == [tag |-> "Err", val |-> None]
OkResult(v) == [tag |-> "Ok", val |-> v]

\* TemperatureReader::parse_temperature_line: Err, Ok(None) or Ok(Some(rec))
ParseTemperatureLine(line, station_id) ==
  IF line.nparts < 4 THEN OkResult(None)
  ELSE IF ParseU32(line.souid) = None THEN ErrResult
  ELSE IF ParseDate(line.date) = None THEN ErrResult
  ELSE IF IsSentinel(line.value) THEN OkResult(None)
  ELSE IF ParseI32(line.value) = None THEN ErrResult
  ELSE IF ParseU8(line.flag) = None THEN ErrResult
  ELSE IF ~QualityFlagFromU8Ok(Unwrap(line.flag)) THEN ErrResult
  ELSE OkResult(Some([staid |-> station_id, souid |-> Unwrap(line.souid),
                      date |-> Unwrap(line.date),
                      temperature |-> Unwrap(line.value),
                      quality_flag |-> Unwrap(line.flag)]))

\* TemperatureReader::read_temperatures_buffered: Err or Ok(records)
RECURSIVE ReadTemperatures(_, _, _)
ReadTemperatures(lines, station_id, records) ==
  IF lines = <<>> THEN OkResult(records)
  ELSE LET parsed == ParseTemperatureLine(Head(lines), station_id)
       IN  IF parsed.tag = "Err" THEN ErrResult
           ELSE ReadTemperatures(Tail(lines), station_id,
                                 records \o parsed.val)

\* ArchiveProcessor::parse_weather_file: the (date, value, quality) triples
RECURSIVE ParseWeatherFile(_)
ParseWeatherFile(lines) ==
  IF lines = <<>> THEN <<>>
  ELSE LET line == Head(lines)
           rest == ParseWeatherFile(Tail(lines))
       IN  IF line.nparts < 4 THEN rest
           ELSE IF /\ ParseDate(line.date) # None
                   /\ ~IsSentinel(line.value)
                   /\ ParseF32(line.value) # None
                   /\ ParseU8(line.flag) # None
                THEN <<[date |-> Unwrap(line.date),
                        value |-> Unwrap(line.value),
                        quality |-> Unwrap(line.flag)]>> \o rest
                ELSE rest

(***************************************************************************)
(* ArchiveProcessor (archive/processor.rs)                                 *)
(***************************************************************************)
\* HashMap::entry(key).or_insert_with(..)
OrInsert(weather_data, key, record) ==
  IF key \in DOMAIN weather_data THEN weather_data
  ELSE weather_data @@ (key :> record)

\* variant: the map is keyed by the source series instead of the date
TempKeyBySource(temp_record) == <<temp_record.staid, temp_record.souid>>

\* the map key of a temperature row
TempKey(temp_record) == <<temp_record.staid, temp_record.date>>

\* variant: a maximum-temperature row writes no slot
SetTemperatureMaxDropped(r, temp_type, temperature) ==
  IF temp_type = "TN" THEN [r EXCEPT !.temp_min = Some(temperature)]
  ELSE IF temp_type = "TX" THEN r
  ELSE [r EXCEPT !.temp_avg = Some(temperature)]

\* the slot a temperature file writes
SetTemperature(r, temp_type, temperature) ==
  IF temp_type = "TN" THEN [r EXCEPT !.temp_min = Some(temperature)]
  ELSE IF temp_type = "TX" THEN [r EXCEPT !.temp_max = Some(temperature)]
  ELSE [r EXCEPT !.temp_avg = Some(temperature)]

\* variant: the flag character is appended whether present or not
CombineTempQualityAlways(r, quality_flag) ==
  [r EXCEPT !.temp_quality =
     Some((IF IsSome(r.temp_quality) THEN Unwrap(r.temp_quality) ELSE <<>>)
          \o U8ToString(quality_flag))]

\* "Update quality flag (combine multiple flags)"
CombineTempQuality(r, quality_flag) ==
  LET quality_str == U8ToString(quality_flag)
  IN  IF IsSome(r.temp_quality)
      THEN IF ~Contains(Unwrap(r.temp_quality), quality_str)
           THEN [r EXCEPT !.temp_quality =
                            Some(Unwrap(r.temp_quality) \o quality_str)]
           ELSE r
      ELSE [r EXCEPT !.temp_quality = Some(quality_str)]

\* the loop body of process_temperature_file for one parsed row
ApplyTemperatureRecord(weather_data, station, temp_type, temp_record) ==
  LET key == TempKey(temp_record)
      wd == OrInsert(weather_data, key, EmptyRecord(station, temp_record.date))
  IN  [wd EXCEPT ![key] =
         CombineTempQuality(
           SetTemperature(wd[key], temp_type, temp_record.temperature),
           temp_record.quality_flag)]

RECURSIVE ApplyTemperatureRecords(_, _, _, _)
ApplyTemperatureRecords(weather_data, station, temp_type, temp_records) ==
  IF temp_records = <<>> THEN weather_data
  ELSE ApplyTemperatureRecords(
         ApplyTemperatureRecord(weather_data, station, temp_type,
                                Head(temp_records)),
         station, temp_type, Tail(temp_records))

\* process_temperature_file: Err (map untouched) or Ok(map)
ProcessTemperatureFile(weather_data, station, temp_type, lines) ==
  LET temp_records == ReadTemperatures(lines, station.staid, <<>>)
  IN  IF temp_records.tag = "Err" THEN ErrResult
      ELSE OkResult(ApplyTemperatureRecords(weather_data, station, temp_type,
                                            temp_records.val))

\* the loop body of process_precipitation_file / process_wind_speed_file
ApplyWeatherValue(weather_data, station, metric, rec) ==
  LET key == <<station.staid, rec.date>>
      wd == OrInsert(weather_data, key, EmptyRecord(station, rec.date))
  IN  [wd EXCEPT ![key] =
         IF metric = "RR"
         THEN [@ EXCEPT !.precipitation = Some(rec.value),
                        !.precip_quality = Some(U8ToString(rec.quality))]
         ELSE [@ EXCEPT !.wind_speed = Some(rec.value),
                        !.wind_quality = Some(U8ToString(rec.quality))]]

RECURSIVE ApplyWeatherValues(_, _, _, _)
ApplyWeatherValues(weather_data, station, metric, recs) ==
  IF recs = <<>> THEN weather_data
  ELSE ApplyWeatherValues(
         ApplyWeatherValue(weather_data, station, metric, Head(recs)),
         station, metric, Tail(recs))

ProcessPrecipitationFile(weather_data, station, lines) ==
  OkResult(ApplyWeatherValues(weather_data, station, "RR",
                              ParseWeatherFile(lines)))

ProcessWindSpeedFile(weather_data, station, lines) ==
  OkResult(ApplyWeatherValues(weather_data, station, "FG",
                              ParseWeatherFile(lines)))

\* process_metric_files: the files of one metric, in archive order
RECURSIVE ProcessMetricFiles(_, _, _)
ProcessMetricFiles(weather_data, metric, files) ==
  IF files = <<>> THEN OkResult(weather_data)
  ELSE LET file == Head(files)
       IN  IF file.staid \notin DOMAIN StationCatalog
           THEN ProcessMetricFiles(weather_data, metric, Tail(files))
           ELSE LET station == StationCatalog[file.staid]
                    done ==
                      IF metric \in {"TN", "TX", "TG"}
                      THEN ProcessTemperatureFile(weather_data, station,
                                                  metric, file.lines)
                      ELSE IF metric = "RR"
                      THEN ProcessPrecipitationFile(weather_data, station,
                                                    file.lines)
                      ELSE ProcessWindSpeedFile(weather_data, station,
                                                file.lines)
                IN  IF done.tag = "Err" THEN ErrResult
                    ELSE ProcessMetricFiles(done.val, metric, Tail(files))

\* ArchiveInspector::scan_data_files: the metrics in first-seen order
RECURSIVE ScanMetrics(_, _)
ScanMetrics(files, metrics) ==
  IF files = <<>> THEN metrics
  ELSE ScanMetrics(Tail(files),
         IF \E i \in 1..Len(metrics) : metrics[i] = Head(files).prefix
         THEN metrics ELSE Append(metrics, Head(files).prefix))

\* TempFileManager::extract_files_matching_pattern
FilesMatching(files, prefix) == SelectSeq(files, LAMBDA f : f.prefix = prefix)

\* the "Process each metric type" loop of process_data
RECURSIVE ProcessMetrics(_, _, _)
ProcessMetrics(weather_data, metrics, files) ==
  IF metrics = <<>> THEN OkResult(weather_data)
  ELSE LET done == ProcessMetricFiles(weather_data, Head(metrics),
                                      FilesMatching(files, Head(metrics)))
       IN  IF done.tag = "Err" THEN ErrResult
           ELSE ProcessMetrics(done.val, Tail(metrics), files)

\* variant: the validation pass is skipped
ValidateAllSkipped(records) == records

\* the validation pass of process_data over the collected records
ValidateAll(records) ==
  [i \in 1..Len(records) |-> PerformPhysicalValidation(records[i])]

\* the violation calculate_integrity_report logs for a record, if any
ViolationOf(r) ==
  LET e == ValidateRelationships(r)
  IN  IF e = "Ok" THEN <<>>
      ELSE <<[station_id |-> r.station_id, date |-> r.date,
              violation_type |->
                IF e = "MinTemperature" THEN "MinGreaterThanAvg"
                ELSE IF e = "AvgTemperature" THEN "AvgGreaterThanMax"
                ELSE "OutOfRange"]>>

EmptyReport ==
  [total_records |-> 0, valid_records |-> 0, suspect_records |-> 0,
   invalid_records |-> 0, missing_data_records |-> 0,
   temperature_violations |-> <<>>]

\* one iteration of the loop of calculate_integrity_report
ReportRecord(report, r) ==
  LET valid == /\ has_valid_temperature_data(r)
               /\ has_valid_precipitation_data(r)
               /\ has_valid_wind_data(r)
      suspect == ~valid /\ has_suspect_data(r)
      missing == ~valid /\ ~suspect /\ has_missing_data(r)
      violation == ViolationOf(r)
  IN  [total_records |-> report.total_records + 1,
       valid_records |-> report.valid_records + (IF valid THEN 1 ELSE 0),
       suspect_records |->
         report.suspect_records + (IF suspect THEN 1 ELSE 0),
       missing_data_records |->
         report.missing_data_records + (IF missing THEN 1 ELSE 0),
       invalid_records |-> report.invalid_records + Len(violation),
       temperature_violations |-> report.temperature_violations \o violation]

RECURSIVE CalculateIntegrityReport(_, _)
CalculateIntegrityReport(records, report) ==
  IF records = <<>> THEN report
  ELSE CalculateIntegrityReport(Tail(records),
                                ReportRecord(report, Head(records)))

\* HashMap::into_values().collect(): the values in the iteration order
IntoValues(map, order) == [i \in 1..Len(order) |-> map[order[i]]]

\* the iteration orders a HashMap with these keys can have
Orders(keys) ==
  {o \in [1..Cardinality(keys) -> keys] :
     \A i, j \in 1..Cardinality(keys) : i # j => o[i] # o[j]}

\* process_data on an archive, the map being iterated in the given order:
\* Err, or Ok((records, report))
ProcessDataMap(archive) ==
  IF ~archive.stations_txt THEN ErrResult
  ELSE ProcessMetrics(<<>>, ScanMetrics(archive.files, <<>>), archive.files)

ProcessDataCollect(weather_data, order) ==
  LET all_records == ValidateAll(IntoValues(weather_data, order))
  IN  [records |-> all_records,
       report |-> CalculateIntegrityReport(all_records, EmptyReport)]

(***************************************************************************)
(* MultiArchiveProcessor (archive/multi_processor.rs)                      *)
(***************************************************************************)
\* variant: temp_quality is copied without the is_some test
MergeWeatherRecordsFlagUnguarded(target, source) ==
  IF target.station_id # source.station_id \/ target.date # source.date
  THEN ErrResult
  ELSE OkResult(PerformPhysicalValidation(
         [target EXCEPT
            !.temp_min = IF IsSome(source.temp_min) THEN source.temp_min ELSE @,
            !.temp_max = IF IsSome(source.temp_max) THEN source.temp_max ELSE @,
            !.temp_avg = IF IsSome(source.temp_avg) THEN source.temp_avg ELSE @,
            !.precipitation =
               IF IsSome(source.precipitation) THEN source.precipitation ELSE @,
            !.wind_speed =
               IF IsSome(source.wind_speed) THEN source.wind_speed ELSE @,
            !.temp_quality = source.temp_quality,
            !.precip_quality =
               IF IsSome(source.precip_quality) THEN source.precip_quality
               ELSE @,
            !.wind_quality =
               IF IsSome(source.wind_quality) THEN source.wind_quality
               ELSE @]))

\* variant: a slot already present in the target is kept
MergeWeatherRecordsKeepFirst(target, source) ==
  IF target.station_id # source.station_id \/ target.date # source.date
  THEN ErrResult
  ELSE OkResult(PerformPhysicalValidation(
         [target EXCEPT
            !.temp_min = IF IsSome(@) THEN @ ELSE source.temp_min,
            !.temp_max = IF IsSome(@) THEN @ ELSE source.temp_max,
            !.temp_avg = IF IsSome(@) THEN @ ELSE source.temp_avg,
            !.precipitation = IF IsSome(@) THEN @ ELSE source.precipitation,
            !.wind_speed = IF IsSome(@) THEN @ ELSE source.wind_speed,
            !.temp_quality =
               IF IsSome(source.temp_quality) THEN source.temp_quality ELSE @,
            !.precip_quality =
               IF IsSome(source.precip_quality) THEN source.precip_quality
               ELSE @,
            !.wind_quality =
               IF IsSome(source.wind_quality) THEN source.wind_quality
               ELSE @]))

\* variant: a temp_quality already present in the target is kept
MergeWeatherRecordsFlagKept(target, source) ==
  IF target.station_id # source.station_id \/ target.date # source.date
  THEN ErrResult
  ELSE OkResult(PerformPhysicalValidation(
         [target EXCEPT
            !.temp_min = IF IsSome(source.temp_min) THEN source.temp_min ELSE @,
            !.temp_max = IF IsSome(source.temp_max) THEN source.temp_max ELSE @,
            !.temp_avg = IF IsSome(source.temp_avg) THEN source.temp_avg ELSE @,
            !.precipitation =
               IF IsSome(source.precipitation) THEN source.precipitation ELSE @,
            !.wind_speed =
               IF IsSome(source.wind_speed) THEN source.wind_speed ELSE @,
            !.temp_quality = IF IsSome(@) THEN @ ELSE source.temp_quality,
            !.precip_quality =
               IF IsSome(source.precip_quality) THEN source.precip_quality
               ELSE @,
            !.wind_quality =
               IF IsSome(source.wind_quality) THEN source.wind_quality
               ELSE @]))

\* merge_weather_records: Err on a station/date mismatch, else Ok(target)
MergeWeatherRecords(target, source) ==
  IF target.station_id # source.station_id \/ target.date # source.date
  THEN ErrResult
  ELSE OkResult(PerformPhysicalValidation(
         [target EXCEPT
            !.temp_min = IF IsSome(source.temp_min) THEN source.temp_min ELSE @,
            !.temp_max = IF IsSome(source.temp_max) THEN source.temp_max ELSE @,
            !.temp_avg = IF IsSome(source.temp_avg) THEN source.temp_avg ELSE @,
            !.precipitation =
               IF IsSome(source.precipitation) THEN source.precipitation ELSE @,
            !.wind_speed =
               IF IsSome(source.wind_speed) THEN source.wind_speed ELSE @,
            !.temp_quality =
               IF IsSome(source.temp_quality) THEN source.temp_quality ELSE @,
            !.precip_quality =
               IF IsSome(source.precip_quality) THEN source.precip_quality
               ELSE @,
            !.wind_quality =
               IF IsSome(source.wind_quality) THEN source.wind_quality
               ELSE @]))

\* the key of merge_records_by_key
MergeKey(record) == <<record.station_id, record.date>>

\* the inner loop of merge_records_by_key over one archive's records
RECURSIVE MergeArchiveRecords(_, _)
MergeArchiveRecords(record_map, archive_records) ==
  IF archive_records = <<>> THEN OkResult(record_map)
  ELSE LET record == Head(archive_records)
           key == MergeKey(record)
       IN  IF key \in DOMAIN record_map
           THEN LET merged == MergeWeatherRecords(record_map[key], record)
                IN  IF merged.tag = "Err" THEN ErrResult
                    ELSE MergeArchiveRecords(
                           [record_map EXCEPT ![key] = merged.val],
                           Tail(archive_records))
           ELSE MergeArchiveRecords(record_map @@ (key :> record),
                                    Tail(archive_records))

\* the outer loop of merge_records_by_key
RECURSIVE MergeAllArchives(_, _)
MergeAllArchives(record_map, records_by_archive) ==
  IF records_by_archive = <<>> THEN OkResult(record_map)
  ELSE LET done == MergeArchiveRecords(record_map, Head(records_by_archive))
       IN  IF done.tag = "Err" THEN ErrResult
           ELSE MergeAllArchives(done.val, Tail(records_by_archive))

\* variant: the comparator without the date tie-break
SortGreaterStationOnly(a, b) == a.station_id > b.station_id

\* the comparator of unified_records.sort_by: a is Greater than b
SortGreater(a, b) ==
  \/ a.station_id > b.station_id
  \/ a.station_id = b.station_id /\ a.date > b.date

\* slice::sort_by is a stable sort
RECURSIVE InsertSorted(_, _)
InsertSorted(sorted, r) ==
  IF sorted = <<>> THEN <<r>>
  ELSE IF SortGreater(Head(sorted), r) THEN <<r>> \o sorted
  ELSE <<Head(sorted)>> \o InsertSorted(Tail(sorted), r)

RECURSIVE SortRecords(_, _)
SortRecords(records, sorted) ==
  IF records = <<>> THEN sorted
  ELSE SortRecords(Tail(records), InsertSorted(sorted, Head(records)))

\* DatasetComposition of the unified records
Composition(unified_records) ==
  LET t == Len(SelectSeq(unified_records, has_temperature_data))
      p == Len(SelectSeq(unified_records, has_precipitation))
      w == Len(SelectSeq(unified_records, has_wind_speed))
  IN  [total_records |-> Len(unified_records),
       records_with_temperature |-> t,
       records_with_precipitation |-> p,
       records_with_wind_speed |-> w,
       available_metrics |->
         (IF t > 0 THEN <<"temperature">> ELSE <<>>)
         \o (IF p > 0 THEN <<"precipitation">> ELSE <<>>)
         \o (IF w > 0 THEN <<"wind_speed">> ELSE <<>>)]

\* merge_records_by_key after the map is built, the map being iterated in
\* the given order
FinishMerge(record_map, order) ==
  LET unified_records ==
        SortRecords(ValidateAll(IntoValues(record_map, order)), <<>>)
  IN  [records |-> unified_records,
       composition |-> Composition(unified_records)]

\* combine_integrity_reports
RECURSIVE CombineIntegrityReports(_, _)
CombineIntegrityReports(reports, combined) ==
  IF reports = <<>> THEN combined
  ELSE LET report == Head(reports)
       IN  CombineIntegrityReports(Tail(reports),
             [total_records |-> combined.total_records + report.total_records,
              valid_records |-> combined.valid_records + report.valid_records,
              suspect_records |->
                combined.suspect_records + report.suspect_records,
              invalid_records |->
                combined.invalid_records + report.invalid_records,
              missing_data_records |->
                combined.missing_data_records + report.missing_data_records,
              temperature_violations |->
                combined.temperature_violations
                \o report.temperature_violations])

\* the station filter of an archive task
FilterByStation(records, filter) ==
  IF IsSome(filter)
  THEN SelectSeq(records, LAMBDA r : r.station_id = Unwrap(filter))
  ELSE records

(***************************************************************************)
(* The archives of the input directory                                     *)
(***************************************************************************)
DataFile(prefix, staid, lines) ==
  [prefix |-> prefix, staid |-> staid, lines |-> lines]

Archive(files) == [stations_txt |-> TRUE, files |-> files]

\* maximum temperature of station 1 on two days
ArchiveTempMax ==
  Archive(<<DataFile("TX", 1, <<Row(<<101>>, <<1>>, <<125>>, <<0>>),
                               Row(<<101>>, <<2>>, <<130>>, <<0>>)>>)>>)

\* precipitation of station 1 and wind speed of station 2
ArchivePrecipWind ==
  Archive(<<DataFile("RR", 1, <<Row(<<201>>, <<1>>, <<55>>, <<0>>)>>),
            DataFile("FG", 2, <<Row(<<301>>, <<1>>, <<30>>, <<1>>)>>)>>)

\* station 1: min 20.0, max 10.0, avg 15.0 on day 1; min 50.0 and max 70.0
\* on day 2
ArchiveTriple ==
  Archive(<<DataFile("TN", 1, <<Row(<<101>>, <<1>>, <<200>>, <<0>>),
                               Row(<<101>>, <<2>>, <<500>>, <<0>>)>>),
            DataFile("TX", 1, <<Row(<<101>>, <<1>>, <<100>>, <<1>>),
                               Row(<<101>>, <<2>>, <<700>>, <<0>>)>>),
            DataFile("TG", 1, <<Row(<<101>>, <<1>>, <<150>>, <<0>>)>>)>>)

\* a temperature row whose flag is not one of 0, 1, 9
ArchiveBadFlag ==
  Archive(<<DataFile("TN", 1, <<Row(<<101>>, <<1>>, <<90>>, <<0>>),
                               Row(<<101>>, <<2>>, <<95>>, <<5>>)>>)>>)

\* station 2: two source series for day 1, a -9999 row for day 2, and a
\* triple within the tolerance; another maximum for (1, day 1), flagged
\* suspect; a station that is not in the catalog
ArchiveSeries ==
  Archive(<<DataFile("TN", 2, <<Row(<<101>>, <<1>>, <<100>>, <<0>>),
                               Row(<<102>>, <<1>>, <<110>>, <<0>>),
                               Row(<<101>>, <<2>>, <<-9999>>, <<9>>)>>),
            DataFile("TG", 2, <<Row(<<101>>, <<1>>, <<105>>, <<0>>)>>),
            DataFile("TX", 2, <<Row(<<101>>, <<1>>, <<120>>, <<0>>)>>),
            DataFile("TX", 1, <<Row(<<102>>, <<1>>, <<300>>, <<1>>)>>),
            DataFile("RR", 3, <<Row(<<201>>, <<1>>, <<10>>, <<0>>)>>)>>)

ArchiveInputs ==
  {ArchiveTempMax, ArchivePrecipWind, ArchiveTriple, ArchiveBadFlag,
   ArchiveSeries}

StationFilters == {None, Some(1), Some(2)}

(***************************************************************************)
(* process_unified_data as a state machine                                 *)
(***************************************************************************)
VARIABLES
  archives,                \* self.archives, sorted by file name
  max_workers,             \* self.max_workers
  station_filter,          \* the station_filter argument
  task,                    \* the state of each archive task of the JoinSet
  result,                  \* what each finished task returned
  completed,               \* finished tasks not yet joined, oldest first
  all_records_by_archive,  \* the records collected by the join loop
  all_reports,             \* the reports collected by the join loop
  pc,                      \* where process_unified_data is
  returned                 \* what process_unified_data returned

\* The state of the other developments of this module: a single call of
\* process_data, the calls on WeatherRecord values, and the scratch
\* directories of the processors.  process_unified_data leaves them alone.
VARIABLES
  zip_files,               \* the archive handed to one process_data call
  process_result,          \* what that call returned
  target,                  \* the record a WeatherRecord operation works on
  source,                  \* its second argument
  call,                    \* the last operation called and what it returned
  processor,               \* the life of each ArchiveProcessor
  temp_root,               \* the directories under the system temp directory
  input,                   \* the arguments of a single library call
  output                   \* what that call returned or left behind

aux_vars == <<zip_files, process_result, target, source, call, processor,
              temp_root, input, output>>

pipeline_vars ==
  <<archives, max_workers, station_filter, task, result, completed,
    all_records_by_archive, all_reports, pc, returned>>

vars == <<pipeline_vars, aux_vars>>

\* the variables of a development that is not running
DataIdle == zip_files = <<>> /\ process_result = <<>>

RecordIdle == target = <<>> /\ source = <<>> /\ call = <<>>

ScratchIdle == processor = <<>> /\ temp_root = <<>>

UnitIdle == input = <<>> /\ output = <<>>

ArchiveIds == 1..NumArchives

NoResult == [tag |-> "None", records |-> <<>>, report |-> EmptyReport]

NoReturn ==
  [tag |-> "Pending", records |-> <<>>, report |-> None, composition |-> None]

ErrReturn ==
  [tag |-> "Err", records |-> <<>>, report |-> None, composition |-> None]

Running == {i \in ArchiveIds : task[i] = "running"}

Init ==
  /\ archives \in [ArchiveIds -> ArchiveInputs]
  /\ max_workers = MaxWorkers
  /\ station_filter \in StationFilters
  /\ task = [i \in ArchiveIds |-> "unspawned"]
  /\ result = [i \in ArchiveIds |-> NoResult]
  /\ completed = <<>>
  /\ all_records_by_archive = <<>>
  /\ all_reports = <<>>
  /\ pc = "spawning"
  /\ returned = NoReturn
  /\ DataIdle /\ RecordIdle /\ ScratchIdle /\ UnitIdle

\* one iteration of "for archive_info in archives { join_set.spawn(..) }"
Spawn(i) ==
  /\ pc = "spawning"
  /\ task[i] = "unspawned"
  /\ \A j \in ArchiveIds : j < i => task[j] # "unspawned"
  /\ task' = [task EXCEPT ![i] = "queued"]
  /\ pc' = IF i = NumArchives THEN "joining" ELSE pc
  /\ UNCHANGED aux_vars
  /\ UNCHANGED <<archives, max_workers, station_filter, result, completed,
                 all_records_by_archive, all_reports, returned>>

\* a runtime worker thread picks the task up
StartTask(i) ==
  /\ task[i] = "queued"
  /\ Cardinality(Running) < RuntimeThreads
  /\ task' = [task EXCEPT ![i] = "running"]
  /\ UNCHANGED aux_vars
  /\ UNCHANGED <<archives, max_workers, station_filter, result, completed,
                 all_records_by_archive, all_reports, pc, returned>>

\* what the task body returns for an archive, its map being iterated in
\* the given order
TaskOutput(weather_data, order, filter) ==
  LET out == ProcessDataCollect(weather_data, order)
  IN  [tag |-> "Ok", records |-> FilterByStation(out.records, filter),
       report |-> out.report]

\* the task body runs to its end: from_zip, process_data, station filter
FinishTask(i) ==
  /\ task[i] = "running"
  /\ LET weather_data == ProcessDataMap(archives[i])
     IN  IF weather_data.tag = "Err"
         THEN result' = [result EXCEPT ![i] = [NoResult EXCEPT !.tag = "Err"]]
         ELSE \E order \in Orders(DOMAIN weather_data.val) :
                result' = [result EXCEPT ![i] =
                             TaskOutput(weather_data.val, order, station_filter)]
  /\ task' = [task EXCEPT ![i] = "finished"]
  /\ completed' = Append(completed, i)
  /\ UNCHANGED aux_vars
  /\ UNCHANGED <<archives, max_workers, station_filter,
                 all_records_by_archive, all_reports, pc, returned>>

\* the task panics: join_next will yield a JoinError for it
PanicTask(i) ==
  /\ task[i] = "running"
  /\ result' = [result EXCEPT ![i] = [NoResult EXCEPT !.tag = "JoinErr"]]
  /\ task' = [task EXCEPT ![i] = "finished"]
  /\ completed' = Append(completed, i)
  /\ UNCHANGED aux_vars
  /\ UNCHANGED <<archives, max_workers, station_filter,
                 all_records_by_archive, all_reports, pc, returned>>

\* variant: a failed task is skipped and the loop goes on
JoinNextSkippingErrors ==
  /\ pc = "joining"
  /\ completed # <<>>
  /\ LET res == result[Head(completed)]
     IN  /\ all_records_by_archive' =
              Append(all_records_by_archive, res.records)
         /\ all_reports' = Append(all_reports, res.report)
         /\ task' = [task EXCEPT ![Head(completed)] = "joined"]
         /\ UNCHANGED <<pc, returned>>
  /\ completed' = Tail(completed)
  /\ UNCHANGED aux_vars
  /\ UNCHANGED <<archives, max_workers, station_filter, result>>

\* one iteration of "while let Some(result) = join_set.join_next().await"
JoinNext ==
  /\ pc = "joining"
  /\ completed # <<>>
  /\ LET res == result[Head(completed)]
     IN  IF res.tag = "Ok"
         THEN /\ all_records_by_archive' =
                   Append(all_records_by_archive, res.records)
              /\ all_reports' = Append(all_reports, res.report)
              /\ task' = [task EXCEPT ![Head(completed)] = "joined"]
              /\ UNCHANGED <<pc, returned>>
         ELSE /\ returned' = ErrReturn
              /\ pc' = "failed"
              /\ task' = [i \in ArchiveIds |->
                            IF task[i] \in {"queued", "running"}
                            THEN "aborted" ELSE task[i]]
              /\ UNCHANGED <<all_records_by_archive, all_reports>>
  /\ completed' = Tail(completed)
  /\ UNCHANGED aux_vars
  /\ UNCHANGED <<archives, max_workers, station_filter, result>>

\* join_next yielded None: merge_records_by_key, combine_integrity_reports
MergeStep ==
  /\ pc = "joining"
  /\ \A i \in ArchiveIds : task[i] = "joined"
  /\ LET merged == MergeAllArchives(<<>>, all_records_by_archive)
     IN  IF merged.tag = "Err"
         THEN /\ returned' = ErrReturn
              /\ pc' = "failed"
         ELSE \E order \in Orders(DOMAIN merged.val) :
                LET out == FinishMerge(merged.val, order)
                IN  /\ returned' =
                         [tag |-> "Ok", records |-> out.records,
                          report |-> Some(CombineIntegrityReports(all_reports,
                                                                  EmptyReport)),
                          composition |-> Some(out.composition)]
                    /\ pc' = "done"
  /\ UNCHANGED aux_vars
  /\ UNCHANGED <<archives, max_workers, station_filter, task, result,
                 completed, all_records_by_archive, all_reports>>

Next ==
  \/ \E i \in ArchiveIds : Spawn(i)
  \/ \E i \in ArchiveIds : StartTask(i)
  \/ \E i \in ArchiveIds : FinishTask(i)
  \/ \E i \in ArchiveIds : PanicTask(i)
  \/ JoinNext
  \/ MergeStep

Spec == Init /\ [][Next]_vars

(***************************************************************************)
(* Properties                                                              *)
(***************************************************************************)
Range(seq) == {seq[i] : i \in 1..Len(seq)}

RecordKey(r) == <<r.station_id, r.date>>

\* the records an archive task got from process_data
TaskRecords(i) == IF result[i].tag = "Ok" THEN result[i].records ELSE <<>>

\* every record emitted so far, by a task or by process_unified_data
Emitted ==
  UNION {Range(TaskRecords(i)) : i \in ArchiveIds} \cup Range(returned.records)

UniqueKeys(records) ==
  \A m, n \in 1..Len(records) :
     m # n => RecordKey(records[m]) # RecordKey(records[n])

\* C1: no two records returned by process_data, and no two records returned
\* by process_unified_data, share (station_id, date).
C1_Uniqueness ==
  /\ \A i \in ArchiveIds : UniqueKeys(TaskRecords(i))
  /\ UniqueKeys(returned.records)

\* two archives contributed to one key and the unified output has two records
C1_Witness ==
  /\ pc = "done"
  /\ Len(returned.records) >= 2
  /\ \E i, j \in ArchiveIds :
        /\ i # j
        /\ \E a \in Range(TaskRecords(i)), b \in Range(TaskRecords(j)) :
              RecordKey(a) = RecordKey(b)

\* the unified records when the archives are folded in enumeration order
EnumerationOrderRecords ==
  LET merged == MergeAllArchives(<<>>, [i \in ArchiveIds |-> TaskRecords(i)])
  IN  FinishMerge(merged.val,
                  CHOOSE o \in Orders(DOMAIN merged.val) : TRUE).records

\* C2: the unified records do not depend on the order in which the archive
\* tasks complete: they are what folding the archives in enumeration order
\* gives.
C2_CompletionOrderIndependent ==
  pc = "done" => returned.records = EnumerationOrderRecords

\* C3: at most max_workers archive tasks run at the same time.
C3_BoundedByMaxWorkers == Cardinality(Running) <= max_workers

\* a finished task whose result join_next has already yielded
Joined(i) == task[i] \in {"finished", "joined"} /\ i \notin Range(completed)

\* C4: once join_next has yielded a task that returned an error or did not
\* join, process_unified_data has returned an error with no records, report
\* or composition; it returns records only when every task succeeded.
C4_ErrorFailsWhole ==
  /\ \A i \in ArchiveIds :
        Joined(i) /\ result[i].tag \in {"Err", "JoinErr"}
          => pc = "failed" /\ returned = ErrReturn
  /\ pc = "done" => \A i \in ArchiveIds : result[i].tag = "Ok"
  /\ pc = "failed" => returned = ErrReturn

\* the run failed after a successful archive with records had been collected
C4_Witness ==
  /\ pc = "failed"
  /\ \E k \in 1..Len(all_records_by_archive) :
        all_records_by_archive[k] # <<>>
  /\ \E i \in ArchiveIds : result[i].tag = "Err"

\* C5: the unified records are ascending by station_id and, within a
\* station, by date.
C5_SortedByStationThenDate ==
  \A n \in 1..(Len(returned.records) - 1) :
     \/ returned.records[n].station_id < returned.records[n + 1].station_id
     \/ /\ returned.records[n].station_id = returned.records[n + 1].station_id
        /\ returned.records[n].date <= returned.records[n + 1].date

\* two stations, two days of one station, and the first record collected is
\* not the first record of the output
C5_Witness ==
  /\ pc = "done"
  /\ \E a, b \in Range(returned.records) : a.station_id # b.station_id
  /\ \E a, b \in Range(returned.records) :
        a.station_id = b.station_id /\ a.date # b.date
  /\ all_records_by_archive[1] # <<>>
  /\ RecordKey(all_records_by_archive[1][1]) # RecordKey(returned.records[1])

HasTriple(r) == IsSome(r.temp_min) /\ IsSome(r.temp_avg) /\ IsSome(r.temp_max)

OrderingHolds(r) ==
  /\ Unwrap(r.temp_min) <= Unwrap(r.temp_avg) + 10
  /\ Unwrap(r.temp_avg) <= Unwrap(r.temp_max) + 10

\* C6 as stated: every emitted record with all three temperatures has
\* temp_min <= temp_avg + 1.0 and temp_avg <= temp_max + 1.0.
C6_OrderingOfEmitted == \A r \in Emitted : HasTriple(r) => OrderingHolds(r)

OrderingViolationLogged(report, r) ==
  \E n \in 1..Len(report.temperature_violations) :
     LET v == report.temperature_violations[n]
     IN  /\ v.station_id = r.station_id
         /\ v.date = r.date
         /\ v.violation_type \in {"MinGreaterThanAvg", "AvgGreaterThanMax"}

\* C6 amended: a record of process_data with all three temperatures is
\* emitted whether or not the ordering holds, and the integrity report of
\* the same call logs a MinGreaterThanAvg or AvgGreaterThanMax violation
\* for its (station_id, date) exactly when the ordering fails.
C6_OrderingViolationIsLogged ==
  \A i \in ArchiveIds :
     \A r \in Range(TaskRecords(i)) :
        HasTriple(r) =>
          (~OrderingHolds(r) <=> OrderingViolationLogged(result[i].report, r))

\* a task emitted a record that breaks the ordering, and logged it
C6_Witness ==
  \E i \in ArchiveIds :
     \E r \in Range(TaskRecords(i)) :
        /\ HasTriple(r)
        /\ ~OrderingHolds(r)
        /\ OrderingViolationLogged(result[i].report, r)

PresentTemps(r) == Range(r.temp_min \o r.temp_max \o r.temp_avg)

\* the worst assessment over the present temperature slots
WorstTemperatureValidity(r) ==
  IF PresentTemps(r) = {} THEN None
  ELSE IF \E t \in PresentTemps(r) : t < -900 \/ t > 600 THEN Some("Invalid")
  ELSE IF \E t \in PresentTemps(r) : t < -350 \/ t > 450 THEN Some("Suspect")
  ELSE Some("Valid")

\* C7: temp_validation is the worst assessment over the present temperature
\* slots (Invalid over Suspect over Valid), absent when none is present.
C7_WorstOverSlots ==
  \A r \in Emitted : r.temp_validation = WorstTemperatureValidity(r)

\* C8: every emitted record is a fixed point of the physical-validation
\* step: running it again changes nothing.
C8_ValidationFixedPoint ==
  \A r \in Emitted : PerformPhysicalValidation(r) = r

\* a unified record whose assessments differ from those of a contributing
\* archive's record for the same key
C8_Witness ==
  /\ pc = "done"
  /\ \E r \in Range(returned.records) :
        \E i \in ArchiveIds :
           \E a \in Range(TaskRecords(i)) :
              /\ RecordKey(a) = RecordKey(r)
              /\ <<a.temp_validation, a.precip_validation, a.wind_validation>>
                   # <<r.temp_validation, r.precip_validation,
                       r.wind_validation>>

TemperatureOnly(r) ==
  /\ has_temperature_data(r)
  /\ r.precipitation = None /\ r.precip_quality = None
  /\ r.wind_speed = None /\ r.wind_quality = None

PrecipitationOnly(r) ==
  /\ has_precipitation(r)
  /\ ~has_temperature_data(r) /\ r.temp_quality = None
  /\ r.wind_speed = None /\ r.wind_quality = None

\* the unified records of two archives folded in the given order
MergeOfTwo(first, second) ==
  LET merged == MergeAllArchives(<<>>, <<first, second>>)
  IN  FinishMerge(merged.val,
                  CHOOSE o \in Orders(DOMAIN merged.val) : TRUE).records

MergedFields ==
  {"temp_min", "temp_max", "temp_avg", "precipitation", "wind_speed",
   "temp_quality", "precip_quality", "wind_quality"}

\* the collected archives whose record for the key has the field present
Carriers(key, field) ==
  {k \in 1..Len(all_records_by_archive) :
     \E r \in Range(all_records_by_archive[k]) :
        RecordKey(r) = key /\ IsSome(r[field])}

\* the field of the last collected archive that carries it, or None
LastPresent(key, field) ==
  IF Carriers(key, field) = {} THEN None
  ELSE LET last == CHOOSE k \in Carriers(key, field) :
                      \A m \in Carriers(key, field) : m <= k
           r == CHOOSE x \in Range(all_records_by_archive[last]) :
                   RecordKey(x) = key /\ IsSome(x[field])
       IN  r[field]

\* C10: each slot and each source flag of a unified record is that of the
\* last archive, in collection order, whose record has it present, and is
\* absent only when no archive has it.
C10_LastPresentWins ==
  pc = "done" =>
    \A r \in Range(returned.records) :
       \A field \in MergedFields :
          r[field] = LastPresent(RecordKey(r), field)

\* two collected archives carry different values of one slot for one key
C10_Witness ==
  /\ pc = "done"
  /\ \E r \in Range(returned.records) :
        \E k, m \in Carriers(RecordKey(r), "temp_max") :
           /\ k < m
           /\ \E a \in Range(all_records_by_archive[k]) :
                 /\ RecordKey(a) = RecordKey(r)
                 /\ a.temp_max # r.temp_max
                 /\ a.temp_quality # r.temp_quality

(***************************************************************************)
(* Calls on WeatherRecord values: merge_weather_records and the composite  *)
(* quality assessments                                                     *)
(***************************************************************************)
\* longest composite temperature flag drawn
MaxFlagLen == 2

\* DataQuality of the temperature family
AssessTemperatureQualityInvalidFirst(r) ==
  IF r.temp_validation = Some("Invalid") THEN "Invalid"
  ELSE IF IsSome(r.temp_quality) /\ ContainsChar(Unwrap(r.temp_quality), 9)
  THEN "Missing"
  ELSE IF /\ IsSome(r.temp_quality) /\ r.temp_validation = Some("Suspect")
          /\ ContainsChar(Unwrap(r.temp_quality), 1)
  THEN "SuspectBoth"
  ELSE IF IsSome(r.temp_quality) /\ ContainsChar(Unwrap(r.temp_quality), 1)
  THEN "SuspectOriginal"
  ELSE IF r.temp_validation = Some("Suspect") THEN "SuspectRange"
  ELSE "Valid"

\* assess_temperature_quality: the first matching arm
AssessTemperatureQuality(r) ==
  IF IsSome(r.temp_quality) /\ ContainsChar(Unwrap(r.temp_quality), 9)
  THEN "Missing"
  ELSE IF r.temp_validation = Some("Invalid") THEN "Invalid"
  ELSE IF /\ IsSome(r.temp_quality) /\ r.temp_validation = Some("Suspect")
          /\ ContainsChar(Unwrap(r.temp_quality), 1)
  THEN "SuspectBoth"
  ELSE IF IsSome(r.temp_quality) /\ ContainsChar(Unwrap(r.temp_quality), 1)
  THEN "SuspectOriginal"
  ELSE IF r.temp_validation = Some("Suspect") THEN "SuspectRange"
  ELSE "Valid"

\* the arms shared by assess_precipitation_quality and assess_wind_quality:
\* the flag is compared with "9" and "1" as a whole
AssessSingleFlagQuality(quality, validation) ==
  IF quality = Some(<<9>>) THEN "Missing"
  ELSE IF validation = Some("Invalid") THEN "Invalid"
  ELSE IF quality = Some(<<1>>) /\ validation = Some("Suspect")
  THEN "SuspectBoth"
  ELSE IF quality = Some(<<1>>) THEN "SuspectOriginal"
  ELSE IF validation = Some("Suspect") THEN "SuspectRange"
  ELSE "Valid"

AssessPrecipitationQuality(r) ==
  AssessSingleFlagQuality(r.precip_quality, r.precip_validation)

AssessWindQuality(r) ==
  AssessSingleFlagQuality(r.wind_quality, r.wind_validation)

\* variant: the slots are copied before the station/date test
MergeInPlaceCheckLast(t, s) ==
  LET m == MergeWeatherRecords(t, s)
      copied == MergeWeatherRecords(
                  t, [s EXCEPT !.station_id = t.station_id, !.date = t.date])
  IN  [tag |-> m.tag, target |-> copied.val]

\* merge_weather_records(&mut target, &source): what it returns and the
\* target it leaves; the Err return comes before the first assignment
MergeInPlace(t, s) ==
  LET m == MergeWeatherRecords(t, s)
  IN  [tag |-> m.tag, target |-> IF m.tag = "Ok" THEN m.val ELSE t]

OptValidities == {None, Some("Valid"), Some("Suspect"), Some("Invalid")}

\* the flag texts of the data model: composite for temperature, a single
\* character for precipitation and wind
TempFlagTexts == UNION {[1..n -> {0, 1, 9}] : n \in 1..MaxFlagLen}

SingleFlagTexts == {<<0>>, <<1>>, <<9>>}

\* a value the physical validation assesses as the given validity
ValueOfValidity(validation, valid, suspect, invalid) ==
  IF validation = None THEN None
  ELSE IF validation = Some("Valid") THEN Some(valid)
  ELSE IF validation = Some("Suspect") THEN Some(suspect)
  ELSE Some(invalid)

\* a record of station 1, day 1 with the given flags and validities
\* (precipitation and wind alike)
RecordWith(temp_flag, temp_validation, flag, validation) ==
  [EmptyRecord(StationCatalog[1], 1) EXCEPT
     !.temp_max = ValueOfValidity(temp_validation, 100, 500, 700),
     !.precipitation = ValueOfValidity(validation, 50, 6000, 25000),
     !.wind_speed = ValueOfValidity(validation, 30, 600, 1500),
     !.temp_quality = temp_flag,
     !.precip_quality = flag,
     !.wind_quality = flag,
     !.temp_validation = temp_validation,
     !.precip_validation = validation,
     !.wind_validation = validation]

TargetRecords ==
  {RecordWith(tf, tv, f, v) :
     tf \in {None} \cup {Some(x) : x \in TempFlagTexts}, tv \in OptValidities,
     f \in {None} \cup {Some(x) : x \in SingleFlagTexts}, v \in OptValidities}

\* a minimum temperature of each station and day, and a precipitation of
\* station 1, day 1
SourceRecords ==
  {PerformPhysicalValidation(
     [EmptyRecord(StationCatalog[s], d) EXCEPT
        !.temp_min = Some(-20), !.temp_quality = Some(<<0>>)]) :
     s \in {1, 2}, d \in {1, 2}}
  \cup
  {PerformPhysicalValidation(
     [EmptyRecord(StationCatalog[1], 1) EXCEPT
        !.precipitation = Some(70), !.precip_quality = Some(<<1>>)])}

NoCall == [op |-> "none", ret |-> "none", before |-> <<>>]

RecordInit ==
  /\ target \in TargetRecords
  /\ source \in SourceRecords
  /\ call = NoCall
  /\ DataIdle /\ ScratchIdle /\ UnitIdle
  /\ archives = <<>> /\ max_workers = 0 /\ station_filter = None
  /\ task = <<>> /\ result = <<>> /\ completed = <<>>
  /\ all_records_by_archive = <<>> /\ all_reports = <<>>
  /\ pc = "idle" /\ returned = NoReturn

MergeCall ==
  /\ call = NoCall
  /\ LET m == MergeInPlace(target, source)
     IN  /\ target' = m.target
         /\ call' = [op |-> "merge_weather_records", ret |-> m.tag,
                     before |-> target]
  /\ UNCHANGED <<source, zip_files, process_result, processor, temp_root,
                 input, output>>
  /\ UNCHANGED pipeline_vars

\* one of the three assess_*_quality methods is called on the record
AssessCall(op, quality) ==
  /\ call = NoCall
  /\ call' = [op |-> op, ret |-> quality, before |-> target]
  /\ UNCHANGED <<target, source, zip_files, process_result, processor,
                 temp_root, input, output>>
  /\ UNCHANGED pipeline_vars

AssessTemperatureCall ==
  AssessCall("assess_temperature_quality", AssessTemperatureQuality(target))

AssessPrecipitationCall ==
  AssessCall("assess_precipitation_quality",
             AssessPrecipitationQuality(target))

AssessWindCall ==
  AssessCall("assess_wind_quality", AssessWindQuality(target))

RecordNext ==
  \/ MergeCall
  \/ AssessTemperatureCall
  \/ AssessPrecipitationCall
  \/ AssessWindCall

RecordSpec == RecordInit /\ [][RecordNext]_vars

\* C11: merge_weather_records returns an error whenever the station_id or
\* the date of source and target differ, and then leaves every field of the
\* target as it was.
C11_MismatchRejectedTargetKept ==
  call.op = "merge_weather_records"
    /\ (source.station_id # call.before.station_id
        \/ source.date # call.before.date)
    => call.ret = "Err" /\ target = call.before

\* a merge was refused for a source of the same station on another day whose
\* slots the target lacks
C11_Witness ==
  /\ call.op = "merge_weather_records"
  /\ call.ret = "Err"
  /\ source.station_id = call.before.station_id
  /\ source.date # call.before.date
  /\ IsSome(source.temp_min) /\ target.temp_min = None
  /\ IsSome(target.temp_max)

\* the metric slots of a record that are present
PresentSlots(r) ==
  {f \in {"temp_min", "temp_max", "temp_avg", "precipitation", "wind_speed"} :
     IsSome(r[f])}

\* C12: every record emitted by process_data and by process_unified_data
\* has at least one of temp_min, temp_max, temp_avg, precipitation,
\* wind_speed present.
C12_CompletenessMinimum == \A r \in Emitted : PresentSlots(r) # {}

\* process_data and process_unified_data both emitted a record with a
\* single slot, and the unified output also has a record with several
C12_Witness ==
  /\ pc = "done"
  /\ \E i \in ArchiveIds :
        \E r \in Range(TaskRecords(i)) : Cardinality(PresentSlots(r)) = 1
  /\ \E r \in Range(returned.records) : Cardinality(PresentSlots(r)) = 1
  /\ \E r \in Range(returned.records) : Cardinality(PresentSlots(r)) > 1

(***************************************************************************)
(* One call of ArchiveProcessor::process_data                              *)
(***************************************************************************)
\* most data files in the archive
MaxFiles == 3

\* minimum temperature of station 1: 60.0 on day 1, -9999 on day 2
FileMinSentinel ==
  DataFile("TN", 1, <<Row(<<101>>, <<1>>, <<600>>, <<0>>),
                      Row(<<101>>, <<2>>, <<-9999>>, <<9>>)>>)

\* mean temperature of station 1: 15.0 and 15.5, the second flagged suspect
FileAvg ==
  DataFile("TG", 1, <<Row(<<101>>, <<1>>, <<150>>, <<0>>),
                      Row(<<101>>, <<2>>, <<155>>, <<1>>)>>)

\* maximum temperature of station 1: 10.0 on day 1 and 35.0 on day 2
FileMaxJump ==
  DataFile("TX", 1, <<Row(<<101>>, <<1>>, <<100>>, <<0>>),
                      Row(<<101>>, <<2>>, <<350>>, <<0>>)>>)

\* precipitation of station 1: -9999 on day 1, a row with a date that is
\* not a date, 5.5 on day 2, a value that is not a number, a flag that is
\* not a number, and a row of day 3 with flag 5
FilePrecip ==
  DataFile("RR", 1, <<Row(<<201>>, <<1>>, <<-9999>>, <<9>>),
                      Row(<<201>>, <<>>, <<40>>, <<0>>),
                      Row(<<201>>, <<2>>, <<55>>, <<0>>),
                      Row(<<201>>, <<2>>, <<>>, <<0>>),
                      Row(<<201>>, <<1>>, <<77>>, <<>>),
                      Row(<<201>>, <<3>>, <<12>>, <<5>>)>>)

\* wind speed of station 2: 3.0 on day 1, flagged suspect, -9999 on day 2
FileWind ==
  DataFile("FG", 2, <<Row(<<301>>, <<1>>, <<30>>, <<1>>),
                      Row(<<301>>, <<2>>, <<-9999>>, <<9>>)>>)

\* mean temperature of station 2: a good row, then a row with a date that
\* is not a date
FileAvgBadDate ==
  DataFile("TG", 2, <<Row(<<102>>, <<1>>, <<80>>, <<0>>),
                      Row(<<102>>, <<>>, <<85>>, <<0>>)>>)

\* minimum temperature of station 2: a good row, then a row with flag 5
FileMinBadFlag ==
  DataFile("TN", 2, <<Row(<<102>>, <<1>>, <<60>>, <<0>>),
                      Row(<<102>>, <<2>>, <<65>>, <<5>>)>>)

FileMenu ==
  <<FileMinSentinel, FileAvg, FileMaxJump, FilePrecip, FileWind,
    FileAvgBadDate, FileMinBadFlag>>

\* the archive holding the chosen files of the menu, in menu order
ArchiveOfFiles(chosen) ==
  LET idx == SelectSeq([i \in 1..Len(FileMenu) |-> i], LAMBDA i : i \in chosen)
  IN  Archive([k \in 1..Len(idx) |-> FileMenu[idx[k]]])

ZipInputs ==
  {ArchiveOfFiles(chosen) :
     chosen \in {c \in SUBSET (1..Len(FileMenu)) :
                   Cardinality(c) >= 1 /\ Cardinality(c) <= MaxFiles}}

NotCalled == [tag |-> "NotCalled", records |-> <<>>, report |-> EmptyReport]

DataInit ==
  /\ zip_files \in ZipInputs
  /\ process_result = NotCalled
  /\ RecordIdle /\ ScratchIdle /\ UnitIdle
  /\ archives = <<>> /\ max_workers = 0 /\ station_filter = None
  /\ task = <<>> /\ result = <<>> /\ completed = <<>>
  /\ all_records_by_archive = <<>> /\ all_reports = <<>>
  /\ pc = "idle" /\ returned = NoReturn

\* process_data(zip_path) runs to its end
ProcessData ==
  /\ process_result = NotCalled
  /\ LET weather_data == ProcessDataMap(zip_files)
     IN  IF weather_data.tag = "Err"
         THEN process_result' = [NotCalled EXCEPT !.tag = "Err"]
         ELSE \E order \in Orders(DOMAIN weather_data.val) :
                LET out == ProcessDataCollect(weather_data.val, order)
                IN  process_result' = [tag |-> "Ok", records |-> out.records,
                                       report |-> out.report]
  /\ UNCHANGED <<zip_files, target, source, call, processor, temp_root,
                 input, output>>
  /\ UNCHANGED pipeline_vars

DataNext == ProcessData

DataSpec == DataInit /\ [][DataNext]_vars

\* the metric slot a file of the given prefix writes
SlotOfPrefix(prefix) ==
  IF prefix = "TN" THEN "temp_min"
  ELSE IF prefix = "TX" THEN "temp_max"
  ELSE IF prefix = "TG" THEN "temp_avg"
  ELSE IF prefix = "RR" THEN "precipitation"
  ELSE "wind_speed"

\* the rows of the archive for a station, a day and a slot whose value is a
\* number other than -9999
ValueRows(station_id, date, slot) ==
  {row \in UNION {Range(zip_files.files[k].lines) :
                    k \in {n \in 1..Len(zip_files.files) :
                             /\ zip_files.files[n].staid = station_id
                             /\ SlotOfPrefix(zip_files.files[n].prefix) = slot}} :
     /\ row.date = <<date>>
     /\ row.value # <<>>
     /\ row.value # <<-9999>>}

\* C13: a row whose value is -9999 sets no slot and creates no record: every
\* present slot of a record of process_data holds the value of a row of that
\* metric, station and day whose value is not -9999, in temperature,
\* precipitation and wind files alike.
C13_SentinelOmitted ==
  \A r \in Range(process_result.records) :
     /\ PresentSlots(r) # {}
     /\ \A slot \in PresentSlots(r) :
           /\ r[slot] # Some(-9999)
           /\ \E row \in ValueRows(r.station_id, r.date, slot) :
                 r[slot] = Some(Unwrap(row.value))

\* the files of the archive that have a -9999 row for the day
SentinelFiles(station_id, date) ==
  {k \in 1..Len(zip_files.files) :
     /\ zip_files.files[k].staid = station_id
     /\ \E row \in Range(zip_files.files[k].lines) :
           row.date = <<date>> /\ row.value = <<-9999>>}

\* the archive has -9999 rows in a temperature, a precipitation and a wind
\* file; a key with only such rows has no record and a key that another
\* metric supplies has one
C13_Witness ==
  /\ process_result.tag = "Ok"
  /\ \A prefix \in {"TN", "RR", "FG"} :
        \E s \in {1, 2}, d \in {1, 2} :
           \E k \in SentinelFiles(s, d) : zip_files.files[k].prefix = prefix
  /\ \E s \in {1, 2}, d \in {1, 2} :
        /\ SentinelFiles(s, d) # {}
        /\ \A r \in Range(process_result.records) : RecordKey(r) # <<s, d>>
  /\ process_result.records # <<>>

\* a data row every field of which parses and whose value is not -9999
WellFormedRow(row) ==
  /\ row.souid # <<>> /\ Unwrap(row.souid) >= 0
  /\ row.date # <<>> /\ Unwrap(row.date) >= 1
  /\ row.value # <<>> /\ row.value # <<-9999>>
  /\ row.flag \in {<<0>>, <<1>>, <<9>>}

\* C14: a data row that fails to parse is rejected alone: process_data
\* still succeeds on the archive, and every well-formed row of a catalogued
\* station has its slot present in the record of its (station, date).
C14_BadRowRejectedAlone ==
  process_result.tag # "NotCalled" =>
    /\ process_result.tag = "Ok"
    /\ \A k \in 1..Len(zip_files.files) :
          \A row \in Range(zip_files.files[k].lines) :
             WellFormedRow(row)
             /\ zip_files.files[k].staid \in DOMAIN StationCatalog
             => \E r \in Range(process_result.records) :
                   /\ RecordKey(r) =
                        <<zip_files.files[k].staid, Unwrap(row.date)>>
                   /\ IsSome(r[SlotOfPrefix(zip_files.files[k].prefix)])

\* the source flags of a record that are present
PresentFlags(r) ==
  {f \in {"temp_quality", "precip_quality", "wind_quality"} : IsSome(r[f])}

\* C15: each present source flag of an emitted record consists of
\* characters from {0, 1, 9}, and precip_quality and wind_quality are
\* exactly one character.
C15_FlagAlphabet ==
  \A r \in Range(process_result.records) :
     \A f \in PresentFlags(r) :
        /\ Range(Unwrap(r[f])) \subseteq {0, 1, 9}
        /\ f \in {"precip_quality", "wind_quality"} => Len(Unwrap(r[f])) = 1

DataQualities ==
  {"Valid", "SuspectOriginal", "SuspectRange", "SuspectBoth", "Invalid",
   "Missing"}

\* the composite-quality table, read top to bottom
QualityTable(flag, validity) ==
  LET has(c) == IsSome(flag) /\ c \in Range(Unwrap(flag))
  IN  IF has(9) THEN "Missing"
      ELSE IF validity = Some("Invalid") THEN "Invalid"
      ELSE IF has(1) /\ validity = Some("Suspect") THEN "SuspectBoth"
      ELSE IF has(1) THEN "SuspectOriginal"
      ELSE IF validity = Some("Suspect") THEN "SuspectRange"
      ELSE "Valid"

FlagChars(r) == UNION {Range(Unwrap(r[f])) : f \in PresentFlags(r)}

\* the classes of the claim
ClassValid(r) == \A f \in PresentFlags(r) : Unwrap(r[f]) = <<0>>

ClassSuspect(r) == 1 \in FlagChars(r)

ClassMissing(r) == 9 \in FlagChars(r)

ClassInvalid(r) == ~ClassValid(r) /\ ~ClassSuspect(r) /\ ~ClassMissing(r)

\* C17: valid_records, suspect_records, missing_data_records and
\* invalid_records of the report of process_data count the records whose
\* present source flags are all "0", that have a flag character 1, that
\* have a flag character 9, and the others.
C17_ClassCounts ==
  process_result.tag = "Ok" =>
    LET records == process_result.records
        report == process_result.report
    IN  /\ report.valid_records = Len(SelectSeq(records, ClassValid))
        /\ report.suspect_records = Len(SelectSeq(records, ClassSuspect))
        /\ report.missing_data_records = Len(SelectSeq(records, ClassMissing))
        /\ report.invalid_records = Len(SelectSeq(records, ClassInvalid))

\* the report has a violation of the type for the station
HasViolation(report, station_id, type) ==
  \E n \in 1..Len(report.temperature_violations) :
     /\ report.temperature_violations[n].station_id = station_id
     /\ report.temperature_violations[n].violation_type = type

\* two records of the station on consecutive days differ by more than
\* 20 degrees in a temperature slot
JumpOf(records, station_id) ==
  \E a, b \in Range(records) :
     /\ a.station_id = station_id /\ b.station_id = station_id
     /\ b.date = a.date + 1
     /\ \E slot \in {"temp_min", "temp_avg", "temp_max"} :
           /\ IsSome(a[slot]) /\ IsSome(b[slot])
           /\ \/ Unwrap(b[slot]) - Unwrap(a[slot]) > 200
              \/ Unwrap(a[slot]) - Unwrap(b[slot]) > 200

\* C18: the report of process_data has a SuspiciousJump violation for a
\* station exactly when two of its records on consecutive days differ by
\* more than 20 degrees in temp_min, temp_avg or temp_max.
C18_SuspiciousJumpReported ==
  process_result.tag = "Ok" =>
    \A station_id \in DOMAIN StationCatalog :
       HasViolation(process_result.report, station_id, "SuspiciousJump")
         <=> JumpOf(process_result.records, station_id)

\* C19: every record of process_data with a present temperature outside
\* [-50, 50] has an OutOfRange violation in the report, whatever other
\* violations it has.
C19_OutOfRangeLogged ==
  process_result.tag = "Ok" =>
    \A r \in Range(process_result.records) :
       (\E t \in PresentTemps(r) : t < -500 \/ t > 500)
         => \E n \in 1..Len(process_result.report.temperature_violations) :
               LET v == process_result.report.temperature_violations[n]
               IN  /\ v.station_id = r.station_id
                   /\ v.date = r.date
                   /\ v.violation_type = "OutOfRange"

(***************************************************************************)
(* The scratch directory of each ArchiveProcessor (archive/temp_manager.rs *)
(* and the steps of process_data that touch it).  One processor is built   *)
(* per archive task; the tasks run on different threads, so their file     *)
(* system steps interleave.                                                *)
(***************************************************************************)
\* an archive without a station catalog
ArchiveNoStations == [ArchiveTempMax EXCEPT !.stations_txt = FALSE]

ScratchArchives == {ArchivePrecipWind, ArchiveBadFlag, ArchiveNoStations}

\* the names TempDir::new can give a directory under the system temp
\* directory
DirNames == 1..NumArchives

NoDir == [exists |-> FALSE, files |-> {}, accessed_by |-> {}]

\* variant: the name is drawn without looking at what exists
FreshDirsAnyName(root) == DirNames

\* TempDir::new creates a directory that did not exist
FreshDirs(root) == {d \in DirNames : ~root[d].exists}

Unborn(zip) ==
  [pc |-> "unborn", zip |-> zip, metrics |-> <<>>, dir |-> None,
   metric |-> 1, extracted_files |-> {}, outcome |-> "none"]

AlivePcs == {"constructed", "metrics"}

Alive(p) == processor[p].pc \in AlivePcs

\* the name of a data file inside the archive, and that of the catalog
FileName(file) == <<file.prefix, file.staid>>

StationsTxt == <<"stations.txt", 0>>

\* File::create / File::open by processor p under its temp_dir
Access(root, d, p, written) ==
  [root EXCEPT ![d].files = @ \cup written, ![d].accessed_by = @ \cup {p}]

\* TempDir::drop: the directory and everything in it are removed
RemoveDir(root, d) == [root EXCEPT ![d] = NoDir]

\* the ArchiveProcessor is dropped: Drop for ArchiveProcessor, then
\* Drop for TempFileManager, then TempDir::drop
DropProcessor(p, outcome) ==
  /\ processor' = [processor EXCEPT ![p].pc = "dropped",
                                    ![p].dir = None,
                                    ![p].extracted_files = {},
                                    ![p].outcome = outcome]
  /\ temp_root' = RemoveDir(temp_root, Unwrap(processor[p].dir))

ScratchInit ==
  /\ processor \in [ArchiveIds -> {Unborn(zip) : zip \in ScratchArchives}]
  /\ temp_root = [d \in DirNames |-> NoDir]
  /\ DataIdle /\ RecordIdle /\ UnitIdle
  /\ archives = <<>> /\ max_workers = 0 /\ station_filter = None
  /\ task = <<>> /\ result = <<>> /\ completed = <<>>
  /\ all_records_by_archive = <<>> /\ all_reports = <<>>
  /\ pc = "idle" /\ returned = NoReturn

ScratchUnchanged ==
  /\ UNCHANGED <<zip_files, process_result, target, source, call, input,
                 output>>
  /\ UNCHANGED pipeline_vars

\* ArchiveProcessor::from_zip: inspect_zip, then TempFileManager::new
FromZip(p) ==
  /\ processor[p].pc = "unborn"
  /\ IF \/ ~processor[p].zip.stations_txt
        \/ ScanMetrics(processor[p].zip.files, <<>>) = <<>>
     THEN /\ processor' = [processor EXCEPT ![p].pc = "dropped",
                                             ![p].outcome = "Err"]
          /\ UNCHANGED temp_root
     ELSE \E d \in FreshDirs(temp_root) :
            /\ processor' = [processor EXCEPT
                               ![p].pc = "constructed",
                               ![p].metrics =
                                  ScanMetrics(processor[p].zip.files, <<>>),
                               ![p].dir = Some(d)]
            /\ temp_root' = [temp_root EXCEPT
                               ![d] = [exists |-> TRUE, files |-> {},
                                       accessed_by |-> {}]]
  /\ ScratchUnchanged

\* process_data: extract_metadata_files and read_stations_map
ExtractMetadata(p) ==
  /\ processor[p].pc = "constructed"
  /\ IF ~processor[p].zip.stations_txt
     THEN DropProcessor(p, "Err")
     ELSE /\ temp_root' = Access(temp_root, Unwrap(processor[p].dir), p,
                                 {StationsTxt})
          /\ processor' = [processor EXCEPT
                             ![p].pc = "metrics",
                             ![p].extracted_files = @ \cup {StationsTxt}]
  /\ ScratchUnchanged

\* the metric the loop of process_data is at, of archive_metadata.metrics
CurrentMetric(p) == processor[p].metrics[processor[p].metric]

\* process_data: one iteration of the metric loop:
\* extract_files_matching_pattern writes the files of the metric into the
\* directory and process_metric_files reads them
ProcessMetric(p) ==
  /\ processor[p].pc = "metrics"
  /\ processor[p].metric <= Len(processor[p].metrics)
  /\ LET data_files == FilesMatching(processor[p].zip.files, CurrentMetric(p))
         names == {FileName(data_files[k]) : k \in 1..Len(data_files)}
     IN  IF ProcessMetricFiles(<<>>, CurrentMetric(p), data_files).tag = "Err"
         THEN DropProcessor(p, "Err")
         ELSE /\ temp_root' =
                   Access(temp_root, Unwrap(processor[p].dir), p, names)
              /\ processor' = [processor EXCEPT
                                 ![p].metric = @ + 1,
                                 ![p].extracted_files = @ \cup names]
  /\ ScratchUnchanged

\* process_data: validation, report, cleanup() and the Ok return, at which
\* self goes out of scope
ReturnOk(p) ==
  /\ processor[p].pc = "metrics"
  /\ processor[p].metric > Len(processor[p].metrics)
  /\ DropProcessor(p, "Ok")
  /\ ScratchUnchanged

\* a panic anywhere in process_data unwinds through the processor
PanicUnwind(p) ==
  /\ Alive(p)
  /\ DropProcessor(p, "Panic")
  /\ ScratchUnchanged

ScratchNext ==
  \/ \E p \in ArchiveIds : FromZip(p)
  \/ \E p \in ArchiveIds : ExtractMetadata(p)
  \/ \E p \in ArchiveIds : ProcessMetric(p)
  \/ \E p \in ArchiveIds : ReturnOk(p)
  \/ \E p \in ArchiveIds : PanicUnwind(p)

\* the runtime keeps polling the tasks: while some processor can take a
\* step, a step is taken
ScratchSpec ==
  /\ ScratchInit
  /\ [][ScratchNext]_vars
  /\ WF_vars(ScratchNext)

\* the live processors whose scratch directory is d
Owners(d) == {p \in ArchiveIds : Alive(p) /\ processor[p].dir = Some(d)}

\* a directory exists exactly while one live processor owns it, only its
\* owner has touched it, and it holds the files its owner extracted
ScratchOwned ==
  \A d \in DirNames :
     /\ temp_root[d].exists <=> Owners(d) # {}
     /\ Cardinality(Owners(d)) <= 1
     /\ temp_root[d].accessed_by \subseteq Owners(d)
     /\ ~temp_root[d].exists => temp_root[d].files = {}
     /\ \A p \in Owners(d) : temp_root[d].files = processor[p].extracted_files

\* C20: the scratch directory of a processor exists only while the
\* processor is alive and no other processor reads or writes it; on every
\* exit path of process_data (Ok, Err, panic) the processor is dropped and
\* the directory and the files extracted into it are removed.
C20_ScratchLifetime ==
  /\ []ScratchOwned
  /\ \A p \in ArchiveIds : Alive(p) ~> processor[p].pc = "dropped"

\* a processor panicked after its directory was created and the directory
\* is gone, while another live processor has files in its own directory
C20_Witness ==
  \E p, q \in ArchiveIds :
     /\ processor[p].pc = "dropped"
     /\ processor[p].outcome = "Panic"
     /\ Alive(q)
     /\ temp_root[Unwrap(processor[q].dir)].files # {}
     /\ Cardinality({d \in DirNames : temp_root[d].exists}) = 1

(***************************************************************************)
(* writers/parquet_writer.rs: a record set written to a Parquet file and   *)
(* read back.                                                              *)
(***************************************************************************)
\* most records handed to the writer
MaxRecords == 2
\* largest batch size asked for
MaxBatchSize == 2

Min(a, b) == IF a <= b THEN a ELSE b

\* every state variable of the other developments at rest
LibraryIdle ==
  /\ DataIdle /\ RecordIdle /\ ScratchIdle
  /\ archives = <<>> /\ max_workers = 0 /\ station_filter = None
  /\ task = <<>> /\ result = <<>> /\ completed = <<>>
  /\ all_records_by_archive = <<>> /\ all_reports = <<>>
  /\ pc = "idle" /\ returned = NoReturn

LibraryUnchanged ==
  /\ UNCHANGED <<zip_files, process_result, target, source, call, processor,
                 temp_root>>
  /\ UNCHANGED pipeline_vars

\* all three temperatures with a composite flag
RecordTemps ==
  [EmptyRecord(StationCatalog[1], 1) EXCEPT
     !.temp_min = Some(100), !.temp_max = Some(200), !.temp_avg = Some(150),
     !.temp_quality = Some(<<0, 1>>), !.temp_validation = Some("Valid")]

\* nothing but the station and the date
RecordBare == EmptyRecord(StationCatalog[2], 2)

RecordRain ==
  [EmptyRecord(StationCatalog[1], 2) EXCEPT
     !.precipitation = Some(5500), !.precip_quality = Some(<<0>>),
     !.precip_validation = Some("Suspect")]

RecordWind ==
  [EmptyRecord(StationCatalog[2], 1) EXCEPT
     !.wind_speed = Some(-10), !.wind_quality = Some(<<9>>),
     !.wind_validation = Some("Invalid")]

ParquetRecords == {RecordTemps, RecordBare, RecordRain, RecordWind}

RecordSeqs == UNION {[1..n -> ParquetRecords] : n \in 0..MaxRecords}

\* NaiveDate::num_days_from_ce: date n of the model is day n of 2023, and
\* 2022-12-31 is day 738520 of the common era
NumDaysFromCe(date) == date + 738520

\* NaiveDate::from_num_days_from_ce_opt: None outside the years NaiveDate
\* can hold
FromNumDaysFromCeOpt(days) ==
  IF days < -95745000 \/ days > 95745000 THEN None ELSE Some(days - 738520)

\* r.temp_validation.map(|v| format!("{:?}", v)): the variant's name
DebugValidity(validation) ==
  IF validation = None THEN None
  ELSE IF Unwrap(validation) = "Valid" THEN Some("Valid")
  ELSE IF Unwrap(validation) = "Suspect" THEN Some("Suspect")
  ELSE Some("Invalid")

\* PhysicalValidity::parse
PhysicalValidityParse(s) ==
  IF s = "Valid" THEN Some("Valid")
  ELSE IF s = "Suspect" THEN Some("Suspect")
  ELSE IF s = "Invalid" THEN Some("Invalid")
  ELSE None

\* one row of the 16 columns of create_weather_schema; a null cell is None
ToRow(r) ==
  [station_id |-> r.station_id, station_name |-> r.station_name,
   date |-> NumDaysFromCe(r.date),
   latitude |-> r.latitude, longitude |-> r.longitude,
   temp_min |-> r.temp_min, temp_max |-> r.temp_max, temp_avg |-> r.temp_avg,
   precipitation |-> r.precipitation, wind_speed |-> r.wind_speed,
   temp_quality |-> r.temp_quality, precip_quality |-> r.precip_quality,
   wind_quality |-> r.wind_quality,
   temp_validation |-> DebugValidity(r.temp_validation),
   precip_validation |-> DebugValidity(r.precip_validation),
   wind_validation |-> DebugValidity(r.wind_validation)]

WeatherRecordsToBatch(records) ==
  [i \in 1..Len(records) |-> ToRow(records[i])]

\* slice::chunks for a chunk size above zero
RECURSIVE Chunks(_, _)
Chunks(rows, size) ==
  IF rows = <<>> THEN <<>>
  ELSE LET n == Min(size, Len(rows))
       IN  <<SubSeq(rows, 1, n)>> \o Chunks(SubSeq(rows, n + 1, Len(rows)), size)

RECURSIVE Flatten(_)
Flatten(batches) ==
  IF batches = <<>> THEN <<>> ELSE Head(batches) \o Flatten(Tail(batches))

\* the validation cell of a row read back
ParseValidityCell(cell) ==
  IF cell = None THEN None ELSE PhysicalValidityParse(Unwrap(cell))

\* WeatherRecord::new_raw over the cells of row i
FromRow(row) ==
  [station_id |-> row.station_id, station_name |-> row.station_name,
   date |-> Unwrap(FromNumDaysFromCeOpt(row.date)),
   latitude |-> row.latitude, longitude |-> row.longitude,
   temp_min |-> row.temp_min, temp_max |-> row.temp_max,
   temp_avg |-> row.temp_avg,
   precipitation |-> row.precipitation, wind_speed |-> row.wind_speed,
   temp_quality |-> row.temp_quality, precip_quality |-> row.precip_quality,
   wind_quality |-> row.wind_quality,
   temp_validation |-> ParseValidityCell(row.temp_validation),
   precip_validation |-> ParseValidityCell(row.precip_validation),
   wind_validation |-> ParseValidityCell(row.wind_validation)]

\* the loop of read_sample_weather_records over the reader's batches
RECURSIVE ReadBatches(_, _, _)
ReadBatches(batches, limit, records) ==
  IF batches = <<>> THEN OkResult(records)
  ELSE LET batch == Head(batches)
           batch_records_to_read == Min(Len(batch), limit - Len(records))
       IN  IF \E i \in 1..batch_records_to_read :
                 FromNumDaysFromCeOpt(batch[i].date) = None
           THEN ErrResult
           ELSE LET read == records \o
                       [i \in 1..batch_records_to_read |-> FromRow(batch[i])]
                IN  IF Len(read) >= limit THEN OkResult(read)
                    ELSE ReadBatches(Tail(batches), limit, read)

NoFile == [exists |-> FALSE, valid |-> FALSE, rows |-> <<>>]

\* what an earlier run left at the path
StaleFile ==
  [exists |-> TRUE, valid |-> TRUE,
   rows |-> WeatherRecordsToBatch(<<RecordBare>>)]

\* File::create done, nothing closed
TruncatedFile == [exists |-> TRUE, valid |-> FALSE, rows |-> <<>>]

NotRead == [tag |-> "NotRead", val |-> None]

ParquetInit ==
  /\ input \in [records : RecordSeqs, batch_size : 0..MaxBatchSize,
                limit : 1..(MaxRecords + 1)]
  /\ output \in {[file |-> f, write |-> "NotCalled", read |-> NotRead] :
                   f \in {NoFile, StaleFile}}
  /\ LibraryIdle

\* ParquetWriter::write_weather_records_batched
WriteWeatherRecordsBatched ==
  /\ output.write = "NotCalled"
  /\ output' =
       IF input.records = <<>> THEN [output EXCEPT !.write = "Ok"]
       ELSE IF input.batch_size = 0
       THEN [output EXCEPT !.write = "Panic", !.file = TruncatedFile]
       ELSE [output EXCEPT
               !.write = "Ok",
               !.file =
                 [exists |-> TRUE, valid |-> TRUE,
                  rows |-> Flatten([c \in 1..Len(Chunks(input.records,
                                                        input.batch_size)) |->
                             WeatherRecordsToBatch(
                               Chunks(input.records, input.batch_size)[c])])]]
  /\ UNCHANGED input
  /\ LibraryUnchanged

\* ParquetWriter::read_sample_weather_records
ReadSampleWeatherRecords ==
  /\ output.write # "NotCalled"
  /\ output.read = NotRead
  /\ output' =
       [output EXCEPT !.read =
          IF ~output.file.exists \/ ~output.file.valid THEN ErrResult
          ELSE ReadBatches(Chunks(output.file.rows, Min(input.limit, 8192)),
                           input.limit, <<>>)]
  /\ UNCHANGED input
  /\ LibraryUnchanged

ParquetNext == WriteWeatherRecordsBatched \/ ReadSampleWeatherRecords

ParquetSpec == ParquetInit /\ [][ParquetNext]_vars

\* C21: what read_sample_weather_records returns after
\* write_weather_records_batched, with a limit of at least the number of
\* records, is Ok with the records written, in the same order and equal in
\* all 16 columns, for every record set (the empty one included) and every
\* batch size.
C21_RoundTrip ==
  (output.read # NotRead /\ input.limit >= Len(input.records))
     => output.read = OkResult(input.records)

(***************************************************************************)
(* archive/multi_processor.rs: from_directory. A file name is the sequence *)
(* of its bytes.                                                           *)
(***************************************************************************)
\* most entries in the directory
MaxEntries == 3

\* ".", "a", "b", "c", "i", "p", "t", "x", "z", "I", "P", "Z" as bytes
Dot == 46

NameAZip == <<97, Dot, 122, 105, 112>>
NameBZip == <<98, Dot, 122, 105, 112>>
NameAbZip == <<97, 98, Dot, 122, 105, 112>>
NameATxt == <<97, Dot, 116, 120, 116>>
NameCZip == <<99, Dot, 122, 105, 112>>
NameBUpperZip == <<98, Dot, 90, 73, 80>>
NameHiddenZip == <<Dot, 122, 105, 112>>

\* the extension the scan keeps
ZipExtension == <<122, 105, 112>>

DirEntry(name, is_file, inspectable) ==
  [name |-> name, is_file |-> is_file, inspectable |-> inspectable]

\* what a directory can hold: archives that pass inspection, one that does
\* not (AbZip), a text file, a directory named like an archive, an
\* upper-case extension and a dot file
EntryMenu ==
  {DirEntry(NameAZip, TRUE, TRUE), DirEntry(NameBZip, TRUE, TRUE),
   DirEntry(NameAbZip, TRUE, FALSE), DirEntry(NameATxt, TRUE, TRUE),
   DirEntry(NameCZip, FALSE, FALSE), DirEntry(NameBUpperZip, TRUE, TRUE),
   DirEntry(NameHiddenZip, TRUE, TRUE)}

\* fs::read_dir yields the entries of the directory in an order the
\* platform chooses
ReadDirOrders ==
  UNION {{s \in [1..n -> EntryMenu] : \A i, j \in 1..n : i # j => s[i] # s[j]} :
           n \in 0..MaxEntries}

FilePatterns == {None, Some(<<>>), Some(<<97>>), Some(<<98, Dot>>)}

\* Path::extension: the part after the last dot of the file name; none
\* without a dot or when the only dot is the first byte
Extension(name) ==
  LET dots == {i \in 1..Len(name) : name[i] = Dot}
  IN  IF dots = {} \/ dots = {1} THEN None
      ELSE LET last == CHOOSE i \in dots : \A j \in dots : j <= i
           IN  Some(SubSeq(name, last + 1, Len(name)))

\* Ord for OsStr: byte-wise lexicographic
RECURSIVE OsStrLess(_, _)
OsStrLess(a, b) ==
  IF b = <<>> THEN FALSE
  ELSE IF a = <<>> THEN TRUE
  ELSE IF Head(a) # Head(b) THEN Head(a) < Head(b)
  ELSE OsStrLess(Tail(a), Tail(b))

ArchiveInfo(entry) == [path |-> entry.name]

\* the entry survives the extension and the pattern filter
PassesFilters(entry, file_pattern) ==
  /\ entry.is_file
  /\ Extension(entry.name) = Some(ZipExtension)
  /\ \/ file_pattern = None
     \/ Unwrap(file_pattern) = <<>>
     \/ Contains(entry.name, Unwrap(file_pattern))

\* the loop over the entries: archives.push for each one inspect_zip accepts
RECURSIVE ScanEntries(_, _)
ScanEntries(entries, file_pattern) ==
  IF entries = <<>> THEN <<>>
  ELSE LET entry == Head(entries)
           rest == ScanEntries(Tail(entries), file_pattern)
       IN  IF ~PassesFilters(entry, file_pattern) THEN rest
           ELSE IF entry.inspectable THEN <<ArchiveInfo(entry)>> \o rest
           ELSE rest

\* archives.sort_by on file_name, a stable sort
RECURSIVE InsertByFileName(_, _)
InsertByFileName(a, sorted) ==
  IF sorted = <<>> THEN <<a>>
  ELSE IF OsStrLess(a.path, Head(sorted).path) THEN <<a>> \o sorted
  ELSE <<Head(sorted)>> \o InsertByFileName(a, Tail(sorted))

RECURSIVE SortByFileNameFrom(_, _)
SortByFileNameFrom(archive_infos, sorted) ==
  IF archive_infos = <<>> THEN sorted
  ELSE SortByFileNameFrom(Tail(archive_infos),
                          InsertByFileName(Head(archive_infos), sorted))

SortByFileNameSkipped(archive_infos) == archive_infos

SortByFileName(archive_infos) == SortByFileNameFrom(archive_infos, <<>>)

NotScanned == [tag |-> "NotCalled", archives |-> <<>>]

InvalidFormat == [tag |-> "InvalidFormat", archives |-> <<>>]

DirectoryInit ==
  /\ input \in [is_dir : {TRUE}, entries : ReadDirOrders,
                file_pattern : FilePatterns]
             \cup [is_dir : {FALSE}, entries : {<<>>},
                   file_pattern : FilePatterns]
  /\ output = NotScanned
  /\ LibraryIdle

\* MultiArchiveProcessor::from_directory
FromDirectory ==
  /\ output = NotScanned
  /\ output' =
       IF ~input.is_dir THEN InvalidFormat
       ELSE LET found == ScanEntries(input.entries, input.file_pattern)
            IN  IF found = <<>> THEN InvalidFormat
                ELSE [tag |-> "Ok", archives |-> SortByFileName(found)]
  /\ UNCHANGED input
  /\ LibraryUnchanged

DirectoryNext == FromDirectory

DirectorySpec == DirectoryInit /\ [][DirectoryNext]_vars

\* the names of the regular files with extension zip that contain the
\* pattern and pass inspection
KeptNames ==
  {e.name : e \in
     {e \in Range(input.entries) :
        /\ e.is_file
        /\ Len(e.name) > 4
        /\ SubSeq(e.name, Len(e.name) - 3, Len(e.name)) = <<Dot>> \o ZipExtension
        /\ \A pattern \in Range(input.file_pattern) :
              \E i \in 1..(Len(e.name) + 1) : \E j \in (i - 1)..Len(e.name) :
                 SubSeq(e.name, i, j) = pattern
        /\ e.inspectable}}

\* C22: from_directory returns the archives whose names are exactly those
\* of the .zip files that match the optional pattern and pass inspection,
\* in increasing file-name order, whatever else the directory holds; it
\* fails with InvalidFormat exactly when the path is not a directory or no
\* archive passes.
C22_DirectoryScan ==
  output # NotScanned =>
    IF ~input.is_dir \/ KeptNames = {}
    THEN output = InvalidFormat
    ELSE /\ output.tag = "Ok"
         /\ {a.path : a \in Range(output.archives)} = KeptNames
         /\ Len(output.archives) = Cardinality(KeptNames)
         /\ \A i, j \in 1..Len(output.archives) :
               i < j => OsStrLess(output.archives[i].path,
                                  output.archives[j].path)

\* read_dir listed two good archives in decreasing name order with one
\* that fails inspection, and the scan returned the two in name order
C22_Witness ==
  /\ output.tag = "Ok"
  /\ Len(output.archives) = 2
  /\ \E i, j \in 1..Len(input.entries) :
        /\ i < j
        /\ input.entries[i].name = output.archives[2].path
        /\ input.entries[j].name = output.archives[1].path
  /\ \E e \in Range(input.entries) :
        /\ PassesFilters(e, input.file_pattern)
        /\ ~e.inspectable

(***************************************************************************)
(* utils/coordinates.rs: dms_to_decimal. A text is the sequence of its     *)
(* characters; an f64 is its sign and its magnitude, so that -0.0 differs  *)
(* from 0.0. Parts are counted in tenths and the result in 1/36000 of a    *)
(* degree, which is exact for the texts drawn (at most one fractional      *)
(* digit); rounding of f64 arithmetic is not modelled.                     *)
(***************************************************************************)
\* most parts of a coordinate text
MaxParts == 4

PartEmpty == <<>>
PartZero == <<"0">>
PartMinusZero == <<"-", "0">>
PartSeven == <<"0", "7">>
PartFraction == <<"3", "9", ".", "5">>
PartSixty == <<"6", "0">>
PartMinusFive == <<"-", "5">>
PartLetter == <<"x">>
PartFifty == <<"5", "0">>

PartMenu ==
  {PartEmpty, PartZero, PartMinusZero, PartSeven, PartFraction, PartSixty,
   PartMinusFive, PartLetter, PartFifty}

PartSeqs == UNION {[1..n -> PartMenu] : n \in 1..MaxParts}

\* the text whose parts between the colons are the given ones
RECURSIVE JoinColon(_)
JoinColon(parts) ==
  IF Len(parts) = 1 THEN parts[1]
  ELSE parts[1] \o <<":">> \o JoinColon(Tail(parts))

DigitChars == <<"0", "1", "2", "3", "4", "5", "6", "7", "8", "9">>

IsDigit(c) == \E i \in 1..10 : DigitChars[i] = c

DigitValue(c) == (CHOOSE i \in 1..10 : DigitChars[i] = c) - 1

F64(neg, mag) == [neg |-> neg, mag |-> mag]

\* dms.split(':')
RECURSIVE SplitColon(_, _)
SplitColon(text, current) ==
  IF text = <<>> THEN <<current>>
  ELSE IF Head(text) = ":" THEN <<current>> \o SplitColon(Tail(text), <<>>)
  ELSE SplitColon(Tail(text), Append(current, Head(text)))

RECURSIVE DecimalValue(_, _)
DecimalValue(digits, acc) ==
  IF digits = <<>> THEN acc
  ELSE DecimalValue(Tail(digits), acc * 10 + DigitValue(Head(digits)))

\* str::parse::<f64> of a decimal text, in tenths: an optional sign, then
\* digits with an optional point, at least one digit in all
ParseF64(s) ==
  LET signed == s # <<>> /\ Head(s) \in {"-", "+"}
      neg == s # <<>> /\ Head(s) = "-"
      body == IF signed THEN Tail(s) ELSE s
      points == {i \in 1..Len(body) : body[i] = "."}
      point == IF points = {} THEN Len(body) + 1
               ELSE CHOOSE i \in points : \A j \in points : i <= j
      whole == SubSeq(body, 1, point - 1)
      fraction == SubSeq(body, point + 1, Len(body))
  IN  IF \/ whole \o fraction = <<>>
         \/ \E i \in 1..Len(whole) : ~IsDigit(whole[i])
         \/ \E i \in 1..Len(fraction) : ~IsDigit(fraction[i])
      THEN None
      ELSE Some(F64(neg, DecimalValue(whole, 0) * 10
                         + (IF fraction = <<>> THEN 0
                            ELSE DigitValue(fraction[1]))))

\* (0.0..60.0).contains(&x): 0.0 <= x && x < 60.0, and 0.0 <= -0.0
InSixtyRange(x) == x.mag = 0 \/ (~x.neg /\ x.mag < 600)

StartsWithMinusNever(dms) == FALSE

\* dms.starts_with('-')
StartsWithMinus(dms) == dms # <<>> /\ Head(dms) = "-"

DmsErr == [tag |-> "Err", val |-> F64(FALSE, 0)]

\* dms_to_decimal
DmsToDecimal(dms) ==
  LET parts == SplitColon(dms, <<>>)
  IN  IF Len(parts) # 3 THEN DmsErr
      ELSE LET is_negative == StartsWithMinus(dms)
               degrees == ParseF64(parts[1])
               minutes == ParseF64(parts[2])
               seconds == ParseF64(parts[3])
           IN  IF degrees = None THEN DmsErr
               ELSE IF minutes = None THEN DmsErr
               ELSE IF seconds = None THEN DmsErr
               ELSE IF ~InSixtyRange(Unwrap(minutes)) THEN DmsErr
               ELSE IF ~InSixtyRange(Unwrap(seconds)) THEN DmsErr
               ELSE LET sign(x) == IF x.neg THEN -1 ELSE 1
                        decimal_value ==
                          Unwrap(degrees).mag * 3600
                          + sign(Unwrap(minutes)) * Unwrap(minutes).mag * 60
                          + sign(Unwrap(seconds)) * Unwrap(seconds).mag
                    IN  [tag |-> "Ok",
                         val |-> F64(is_negative, decimal_value)]

DmsNotCalled == [tag |-> "NotCalled", val |-> F64(FALSE, 0)]

DmsInit ==
  /\ input \in {[parts |-> p, dms |-> JoinColon(p)] : p \in PartSeqs}
  /\ output = DmsNotCalled
  /\ LibraryIdle

DmsCall ==
  /\ output = DmsNotCalled
  /\ output' = DmsToDecimal(input.dms)
  /\ UNCHANGED input
  /\ LibraryUnchanged

DmsNext == DmsCall

DmsSpec == DmsInit /\ [][DmsNext]_vars

\* the number a part stands for, in tenths, or none if it is not a number
NumberOf(part) ==
  IF part = PartZero THEN Some(0)
  ELSE IF part = PartMinusZero THEN Some(0)
  ELSE IF part = PartSeven THEN Some(70)
  ELSE IF part = PartFraction THEN Some(395)
  ELSE IF part = PartSixty THEN Some(600)
  ELSE IF part = PartMinusFive THEN Some(-50)
  ELSE IF part = PartFifty THEN Some(500)
  ELSE None

Abs(n) == IF n < 0 THEN -n ELSE n

\* exactly three numeric parts with M and S in [0, 60)
WellFormedDms(parts) ==
  /\ Len(parts) = 3
  /\ \A i \in 1..3 : IsSome(NumberOf(parts[i]))
  /\ \A i \in 2..3 : Unwrap(NumberOf(parts[i])) >= 0
                     /\ Unwrap(NumberOf(parts[i])) < 600

MaxTemps == 2

TemperatureRecord(date, temperature, quality_flag) ==
  [staid |-> 1, souid |-> 101, date |-> date, temperature |-> temperature,
   quality_flag |-> quality_flag]

\* 15.0 on day 1, 16.0 (suspect) on day 2, and a missing value on day 2
TempDayOne == TemperatureRecord(1, 150, 0)
TempDayTwo == TemperatureRecord(2, 160, 1)
TempMissing == TemperatureRecord(2, -99990, 9)

TempMenu == {TempDayOne, TempDayTwo, TempMissing}

TempVectors == UNION {[1..n -> TempMenu] : n \in 0..MaxTemps}

\* TemperatureSet::default()
EmptyTemperatureSet == [min |-> None, max |-> None, avg |-> None]

\* temp_map.entry(date).or_default()
OrDefault(temp_map, date) ==
  IF date \in DOMAIN temp_map THEN temp_map
  ELSE temp_map @@ (date :> EmptyTemperatureSet)

\* the three loops that fill temp_map, one slot each
RECURSIVE AddTemps(_, _, _)
AddTemps(temp_map, temps, slot) ==
  IF temps = <<>> THEN temp_map
  ELSE LET record == Head(temps)
           with_entry == OrDefault(temp_map, record.date)
       IN  AddTemps([with_entry EXCEPT ![record.date][slot] = Some(record)],
                    Tail(temps), slot)

\* .map(|r| (r.temperature, r.quality_flag)).unwrap_or((-9999.0, 9))
TempOrMissing(slot) ==
  IF IsSome(slot)
  THEN [temp |-> Unwrap(slot).temperature, quality |-> Unwrap(slot).quality_flag]
  ELSE [temp |-> -99990, quality |-> 9]

\* variant: the flags in (min, max, avg) order
QualityFlagsMinMaxAvg(min_quality, avg_quality, max_quality) ==
  U8ToString(min_quality) \o U8ToString(max_quality) \o U8ToString(avg_quality)

\* format!("{}{}{}", min_quality, avg_quality, max_quality)
QualityFlags(min_quality, avg_quality, max_quality) ==
  U8ToString(min_quality) \o U8ToString(avg_quality) \o U8ToString(max_quality)

\* DataMerger::create_consolidated_record: None or Some(record)
CreateConsolidatedRecord(allow_incomplete, station, date, temp_set) ==
  IF /\ ~allow_incomplete
     /\ (temp_set.min = None \/ temp_set.max = None \/ temp_set.avg = None)
  THEN None
  ELSE LET min == TempOrMissing(temp_set.min)
           max == TempOrMissing(temp_set.max)
           avg == TempOrMissing(temp_set.avg)
       IN  IF min.temp = -99990 /\ max.temp = -99990 /\ avg.temp = -99990
           THEN None
           ELSE Some([station_id |-> station.staid,
                      station_name |-> station.name, date |-> date,
                      latitude |-> station.latitude,
                      longitude |-> station.longitude,
                      min_temp |-> min.temp, max_temp |-> max.temp,
                      avg_temp |-> avg.temp,
                      quality_flags |->
                        QualityFlags(min.quality, avg.quality, max.quality)])

\* for (date, temp_set) in temp_map, in the order the map yields
RECURSIVE ConvertTempMap(_, _, _, _)
ConvertTempMap(allow_incomplete, station, temp_map, order) ==
  IF order = <<>> THEN <<>>
  ELSE CreateConsolidatedRecord(allow_incomplete, station, Head(order),
                                temp_map[Head(order)])
       \o ConvertTempMap(allow_incomplete, station, temp_map, Tail(order))

\* records.sort_by_key(|r| r.date), a stable sort
RECURSIVE InsertByDate(_, _)
InsertByDate(record, sorted) ==
  IF sorted = <<>> THEN <<record>>
  ELSE IF record.date < Head(sorted).date THEN <<record>> \o sorted
  ELSE <<Head(sorted)>> \o InsertByDate(record, Tail(sorted))

RECURSIVE SortByDateFrom(_, _)
SortByDateFrom(records, sorted) ==
  IF records = <<>> THEN sorted
  ELSE SortByDateFrom(Tail(records), InsertByDate(Head(records), sorted))

SortByDate(records) == SortByDateFrom(records, <<>>)

\* the map after the three loops
TempMapOf(min_temps, max_temps, avg_temps) ==
  AddTemps(AddTemps(AddTemps(<<>>, min_temps, "min"), max_temps, "max"),
           avg_temps, "avg")

MergerNotCalled == [tag |-> "NotCalled", records |-> <<>>]

MergerInit ==
  /\ input \in [allow_incomplete : BOOLEAN, min_temps : TempVectors,
                max_temps : TempVectors, avg_temps : TempVectors]
  /\ output = MergerNotCalled
  /\ LibraryIdle

\* DataMerger::merge_station_data
MergeStationData ==
  /\ output = MergerNotCalled
  /\ LET temp_map == TempMapOf(input.min_temps, input.max_temps,
                               input.avg_temps)
     IN  \E order \in Orders(DOMAIN temp_map) :
            output' =
              [tag |-> "Ok",
               records |->
                 SortByDate(ConvertTempMap(input.allow_incomplete,
                                           StationCatalog[1], temp_map, order))]
  /\ UNCHANGED input
  /\ LibraryUnchanged

MergerNext == MergeStationData

MergerSpec == MergerInit /\ [][MergerNext]_vars

\* the last record a vector supplies for the date, if any
Supplied(temps, date) ==
  LET at == {i \in 1..Len(temps) : temps[i].date = date}
  IN  IF at = {} THEN None
      ELSE Some(temps[CHOOSE i \in at : \A j \in at : j <= i])

MergerDates == {1, 2}

\* min, max and avg are all supplied, or one of them is and incomplete
\* sets are allowed
CompleteEnough(date) ==
  LET present == {v \in {Supplied(input.min_temps, date),
                         Supplied(input.max_temps, date),
                         Supplied(input.avg_temps, date)} : IsSome(v)}
      all == /\ IsSome(Supplied(input.min_temps, date))
             /\ IsSome(Supplied(input.max_temps, date))
             /\ IsSome(Supplied(input.avg_temps, date))
  IN  IF input.allow_incomplete THEN present # {} ELSE all

\* every temperature supplied for the date is -9999.0
AllMissing(date) ==
  \A s \in {Supplied(input.min_temps, date), Supplied(input.max_temps, date),
            Supplied(input.avg_temps, date)} :
     IsSome(s) => Unwrap(s).temperature = -99990

FlagOf(supplied) ==
  IF IsSome(supplied) THEN Unwrap(supplied).quality_flag ELSE 9

\* the flags of the emitted records and their order
FlagsAndOrder ==
  /\ \A i \in 1..Len(output.records) :
        output.records[i].quality_flags =
          <<FlagOf(Supplied(input.min_temps, output.records[i].date)),
            FlagOf(Supplied(input.avg_temps, output.records[i].date)),
            FlagOf(Supplied(input.max_temps, output.records[i].date))>>
  /\ \A i, j \in 1..Len(output.records) :
        i < j => output.records[i].date < output.records[j].date

\* C24: merge_station_data emits a record for a date exactly when min, max
\* and avg are all supplied (allow_incomplete false) or at least one is
\* (allow_incomplete true); quality_flags is the flag digits in (min, avg,
\* max) order with 9 for each absent temperature; the output is sorted by
\* date.
C24_MergeStationData ==
  output # MergerNotCalled =>
    /\ {r.date : r \in Range(output.records)} =
         {d \in MergerDates : CompleteEnough(d)}
    /\ FlagsAndOrder

\* C24 as amended: a date whose supplied temperatures are all -9999.0 is
\* skipped; otherwise as C24.
C24_MergeStationDataUnlessAllMissing ==
  output # MergerNotCalled =>
    /\ {r.date : r \in Range(output.records)} =
         {d \in MergerDates : CompleteEnough(d) /\ ~AllMissing(d)}
    /\ FlagsAndOrder

\* incomplete sets allowed: day 1 has a minimum only and is emitted with
\* flags 099, day 2 has only a -9999.0 maximum and is skipped
C24_Witness ==
  /\ output.tag = "Ok"
  /\ input.allow_incomplete
  /\ Supplied(input.max_temps, 2) = Some(TempMissing)
  /\ Supplied(input.min_temps, 2) = None
  /\ Supplied(input.avg_temps, 2) = None
  /\ Len(output.records) = 1
  /\ output.records[1].date = 1
  /\ output.records[1].quality_flags = <<0, 9, 9>>

(***************************************************************************)
(* archive/inspector.rs: the date range inspect_zip estimates.             *)
(***************************************************************************)
\* most members of the inspected archive besides stations.txt
MaxMembers == 2
\* most lines of a member after its header
MaxRows == 2

\* MAX_SAMPLE_FILES
MaxSampleFiles == 5
\* MAX_LINES_TO_READ
MaxLinesToRead == 100
\* the count below which a line is skipped as a header
HeaderLines == 20

\* a line of a member: whether it is blank after trimming, the number of
\* comma-separated parts, and the date part 2 parses to under %Y%m%d
Line(blank, parts, date) == [blank |-> blank, parts |-> parts, date |-> date]

HeaderLine == Line(FALSE, 1, None)
BlankLine == Line(TRUE, 1, None)
BadDateLine == Line(FALSE, 4, None)
DataLine(date) == Line(FALSE, 4, Some(date))

RowMenu == {DataLine(1), DataLine(3), BadDateLine, BlankLine}

\* a member: whether parse_data_file_name accepts its name, and its lines
Member(data, header, rows) ==
  [data |-> data, lines |-> [i \in 1..header |-> HeaderLine] \o rows]

MemberMenu ==
  {Member(data, header, rows) :
     data \in BOOLEAN, header \in {0, HeaderLines},
     rows \in UNION {[1..n -> RowMenu] : n \in 0..MaxRows}}

InspectedArchives == UNION {[1..n -> MemberMenu] : n \in 0..MaxMembers}

DateMin(a, b) == IF a <= b THEN a ELSE b
DateMax(a, b) == IF a >= b THEN a ELSE b

\* min_date.map_or(date, |d| d.min(date))
MinOr(min_date, date) ==
  IF IsSome(min_date) THEN Some(DateMin(Unwrap(min_date), date)) ELSE Some(date)

\* max_date.map_or(date, |d| d.max(date))
MaxOr(max_date, date) ==
  IF IsSome(max_date) THEN Some(DateMax(Unwrap(max_date), date)) ELSE Some(date)

\* the loop of extract_date_range_from_file
RECURSIVE ScanLines(_, _, _, _)
ScanLines(lines, min_date, max_date, lines_read) ==
  IF lines = <<>> \/ lines_read >= MaxLinesToRead
  THEN [min |-> min_date, max |-> max_date]
  ELSE LET line == Head(lines)
       IN  IF line.blank \/ lines_read < HeaderLines
           THEN ScanLines(Tail(lines), min_date, max_date, lines_read)
           ELSE IF line.parts >= 2 /\ IsSome(line.date)
           THEN ScanLines(Tail(lines), MinOr(min_date, Unwrap(line.date)),
                          MaxOr(max_date, Unwrap(line.date)), lines_read + 1)
           ELSE ScanLines(Tail(lines), min_date, max_date, lines_read)

\* ArchiveInspector::extract_date_range_from_file: None for Err
ExtractDateRangeFromFile(lines) ==
  LET found == ScanLines(lines, None, None, 0)
  IN  IF IsSome(found.min) /\ IsSome(found.max)
      THEN Some(<<Unwrap(found.min), Unwrap(found.max)>>)
      ELSE None

\* the loop of estimate_date_range over the members
RECURSIVE SampleFiles(_, _, _, _)
SampleFiles(members, min_date, max_date, files_sampled) ==
  IF members = <<>> \/ files_sampled >= MaxSampleFiles
  THEN [min |-> min_date, max |-> max_date]
  ELSE LET dates == IF Head(members).data
                    THEN ExtractDateRangeFromFile(Head(members).lines)
                    ELSE None
       IN  IF IsSome(dates)
           THEN SampleFiles(Tail(members), MinOr(min_date, Unwrap(dates)[1]),
                            MaxOr(max_date, Unwrap(dates)[2]),
                            files_sampled + 1)
           ELSE SampleFiles(Tail(members), min_date, max_date, files_sampled)

\* ArchiveInspector::estimate_date_range(..).ok()
EstimateDateRange(members) ==
  LET found == SampleFiles(members, None, None, 0)
  IN  IF IsSome(found.min) /\ IsSome(found.max)
      THEN Some(<<Unwrap(found.min), Unwrap(found.max)>>)
      ELSE None

NotInspected == [tag |-> "NotCalled", date_range |-> None]

DateRangeInit ==
  /\ input \in InspectedArchives
  /\ output = NotInspected
  /\ LibraryIdle

\* ArchiveInspector::inspect_zip on an archive that holds stations.txt
InspectZip ==
  /\ output = NotInspected
  /\ output' =
       IF \A i \in 1..Len(input) : ~input[i].data
       THEN [tag |-> "Err", date_range |-> None]
       ELSE [tag |-> "Ok", date_range |-> EstimateDateRange(input)]
  /\ UNCHANGED input
  /\ LibraryUnchanged

DateRangeNext == InspectZip

DateRangeSpec == DateRangeInit /\ [][DateRangeNext]_vars

\* the dates of the rows after line 20 of the data files (the archives
\* drawn stay below 5 data files and 100 rows)
SampledDates ==
  {Unwrap(input[i].lines[j].date) :
     <<i, j>> \in
       {p \in (1..Len(input)) \X (1..(HeaderLines + MaxRows)) :
          /\ input[p[1]].data
          /\ p[2] > HeaderLines
          /\ p[2] <= Len(input[p[1]].lines)
          /\ IsSome(input[p[1]].lines[p[2]].date)}}

\* C25: inspect_zip returns date_range = (min, max) over the dates parsed
\* from the sampled rows whenever at least one sampled row has a parseable
\* date, and no date range only when nothing parsed.
C25_DateRangeSampled ==
  output.tag = "Ok" =>
    IF SampledDates = {} THEN output.date_range = None
    ELSE output.date_range =
           Some(<<CHOOSE d \in SampledDates : \A e \in SampledDates : d <= e,
                  CHOOSE d \in SampledDates : \A e \in SampledDates : d >= e>>)

(***************************************************************************)
(* Properties of the combined report and of temp_quality                   *)
(***************************************************************************)
\* the violations of the archives' reports, concatenated in the order the
\* archives are enumerated
RECURSIVE EnumerationOrderViolations(_)
EnumerationOrderViolations(i) ==
  IF i > NumArchives THEN <<>>
  ELSE result[i].report.temperature_violations
       \o EnumerationOrderViolations(i + 1)

\* C26: for a fixed archive-enumeration order the violations of the
\* combined report come in an order that does not depend on the order in
\* which the archive tasks complete: the archives' lists in enumeration
\* order.
C26_ViolationOrderStable ==
  pc = "done" =>
    Unwrap(returned.report).temperature_violations =
      EnumerationOrderViolations(1)

\* C30: the combined integrity report describes the records returned by
\* the same call: its total_records is the number of unified records, also
\* with a station filter and when archives share a (station, date).
C30_ReportCountsReturnedRecords ==
  pc = "done" =>
    Unwrap(returned.report).total_records = Len(returned.records)

(***************************************************************************)
(* archive/processor.rs: the temperature files of one station processed    *)
(* into one map, all rows on the same day.                                 *)
(***************************************************************************)
\* most rows of a TN or TX file
MaxFlagRows == 2
\* most rows of a TG file
MaxAvgRows == 1

TempTypes == {"TN", "TX", "TG"}

\* the rows a file can hold: 10.0 on day 1 with flag 0, 1 or 9
FlagRowMenu == {Row(<<101>>, <<1>>, <<100>>, <<f>>) : f \in {0, 1, 9}}

FlagRowSeqs == UNION {[1..n -> FlagRowMenu] : n \in 0..MaxFlagRows}

AvgRowSeqs == UNION {[1..n -> FlagRowMenu] : n \in 0..MaxAvgRows}

\* the rows of the TN, the TX and the TG file of the station
TempFileRows ==
  {[t \in TempTypes |-> IF t = "TN" THEN tn ELSE IF t = "TX" THEN tx ELSE tg] :
     tn \in FlagRowSeqs, tx \in FlagRowSeqs, tg \in AvgRowSeqs}

\* the order in which the metrics of the archive are processed
TempTypeOrders ==
  {o \in [1..3 -> TempTypes] : \A i, j \in 1..3 : i # j => o[i] # o[j]}

\* process_temperature_file on each file in turn, into the same map
RECURSIVE ProcessTemperatureFiles(_, _, _)
ProcessTemperatureFiles(weather_data, order, files) ==
  IF order = <<>> THEN OkResult(weather_data)
  ELSE LET done == ProcessTemperatureFile(weather_data, StationCatalog[1],
                                          Head(order), files[Head(order)])
       IN  IF done.tag = "Err" THEN ErrResult
           ELSE ProcessTemperatureFiles(done.val, Tail(order), files)

FlagsNotProcessed == [tag |-> "NotCalled", temp_quality |-> None]

FlagInit ==
  /\ input \in [order : TempTypeOrders, files : TempFileRows]
  /\ output = FlagsNotProcessed
  /\ LibraryIdle

\* the temperature part of process_data for the station
ProcessTemperatures ==
  /\ output = FlagsNotProcessed
  /\ LET done == ProcessTemperatureFiles(<<>>, input.order, input.files)
     IN  output' =
           IF done.tag = "Err" THEN [tag |-> "Err", temp_quality |-> None]
           ELSE [tag |-> "Ok",
                 temp_quality |->
                   IF <<1, 1>> \in DOMAIN done.val
                   THEN done.val[<<1, 1>>].temp_quality ELSE None]
  /\ UNCHANGED input
  /\ LibraryUnchanged

FlagNext == ProcessTemperatures

FlagSpec == FlagInit /\ [][FlagNext]_vars

\* the flags of the rows in the order they are processed
RowFlags ==
  LET flags(k) == [i \in 1..Len(input.files[input.order[k]]) |->
                     Unwrap(input.files[input.order[k]][i].flag)]
  IN  flags(1) \o flags(2) \o flags(3)

FirstIndex(seq, c) ==
  CHOOSE i \in 1..Len(seq) : seq[i] = c /\ \A j \in 1..(i - 1) : seq[j] # c

\* q lists the distinct elements of seq in order of first appearance
IsFirstAppearance(q, seq) ==
  /\ Range(q) = Range(seq)
  /\ \A i, j \in 1..Len(q) :
        i < j => q[i] # q[j] /\ FirstIndex(seq, q[i]) < FirstIndex(seq, q[j])

MaxCalls == 3

MemberNames == {"stations.txt", "elements.txt", "TX_STAID000001.txt"}

\* self.temp_dir.path().join(file_name)
DestPath(file_name) == <<"temp_dir", file_name>>

NoPath == <<"none", "none">>

NoExtract == [name |-> "none", tag |-> "none", path |-> NoPath, before |-> {}]

\* variant: the map of extracted files is never consulted
AlreadyExtractedNever(extracted_files, file_name) == FALSE

\* self.extracted_files.get(file_name) is Some
AlreadyExtracted(extracted_files, file_name) ==
  file_name \in DOMAIN extracted_files

\* HashMap::insert
MapInsert(map, key, value) ==
  [k \in DOMAIN map \cup {key} |-> IF k = key THEN value ELSE map[k]]

ExtractInit ==
  /\ input \in (SUBSET MemberNames)
  /\ output = [extracted_files |-> <<>>,
               created |-> [n \in MemberNames |-> 0],
               calls |-> 0, failed |-> 0, last |-> NoExtract]
  /\ LibraryIdle

\* TempFileManager::extract_file(zip_path, file_name); created counts the
\* File::create calls on the destination
ExtractFile(file_name) ==
  /\ output.calls < MaxCalls
  /\ LET before == {<<n, output.extracted_files[n]>> :
                      n \in DOMAIN output.extracted_files}
         called == [output EXCEPT !.calls = @ + 1]
     IN  output' =
           IF AlreadyExtracted(output.extracted_files, file_name)
           THEN [called EXCEPT
                   !.last = [name |-> file_name, tag |-> "Ok",
                             path |-> output.extracted_files[file_name],
                             before |-> before]]
           ELSE IF file_name \notin input
           THEN [called EXCEPT
                   !.failed = @ + 1,
                   !.last = [name |-> file_name, tag |-> "InvalidFormat",
                             path |-> NoPath, before |-> before]]
           ELSE [called EXCEPT
                   !.created[file_name] = @ + 1,
                   !.extracted_files =
                      MapInsert(output.extracted_files, file_name,
                                DestPath(file_name)),
                   !.last = [name |-> file_name, tag |-> "Ok",
                             path |-> DestPath(file_name),
                             before |-> before]]
  /\ UNCHANGED input
  /\ LibraryUnchanged

ExtractNext == \E file_name \in MemberNames : ExtractFile(file_name)

ExtractSpec == ExtractInit /\ [][ExtractNext]_vars

\* the tracked (name, path) pairs
Tracked ==
  {<<n, output.extracted_files[n]>> : n \in DOMAIN output.extracted_files}

\* C28: extract_file is idempotent per file name: a call for a name already
\* extracted returns the path of the first call and extracts nothing, no
\* file is extracted twice, each tracked name has one path, and a call for
\* a name that is not in the archive fails and leaves the tracked set as it
\* was.
C28_ExtractIdempotent ==
  /\ \A n \in MemberNames :
        /\ output.created[n] <= 1
        /\ output.created[n] = 1 <=> n \in DOMAIN output.extracted_files
  /\ \A p, q \in Tracked : p[1] = q[1] => p = q
  /\ output.last.name # "none" =>
       IF \E p \in output.last.before : p[1] = output.last.name
       THEN /\ output.last.tag = "Ok"
            /\ <<output.last.name, output.last.path>> \in output.last.before
            /\ Tracked = output.last.before
       ELSE IF output.last.name \in input
       THEN /\ output.last.tag = "Ok"
            /\ Tracked =
                 output.last.before
                 \cup {<<output.last.name, output.last.path>>}
       ELSE /\ output.last.tag = "InvalidFormat"
            /\ Tracked = output.last.before

\* after a call that failed, a second call for an extracted name returned
\* its path and the file had been created once
C28_Witness ==
  /\ output.failed >= 1
  /\ output.last.tag = "Ok"
  /\ <<output.last.name, output.last.path>> \in output.last.before
  /\ output.created[output.last.name] = 1

(***************************************************************************)
(* The TN and the TX file of a station in one archive, and in two archives *)
(* that are then merged.                                                   *)
(***************************************************************************)
SplitNotCalled == [tag |-> "NotCalled", records |-> <<>>]

\* the records process_data returns for an archive of the given files, the
\* map being iterated in some order
ArchiveRecordSeqs(files) ==
  LET weather_data == ProcessDataMap(Archive(files))
  IN  IF weather_data.tag = "Err" THEN {}
      ELSE {ProcessDataCollect(weather_data.val, order).records :
              order \in Orders(DOMAIN weather_data.val)}

SplitInit ==
  /\ input \in [tn : FlagRowSeqs, tx : FlagRowSeqs, last : {"TN", "TX"}]
  /\ output = [whole |-> SplitNotCalled, split |-> SplitNotCalled]
  /\ LibraryIdle

\* process_data on the archive that holds both files
ProcessWhole ==
  /\ output.whole = SplitNotCalled
  /\ \E records \in ArchiveRecordSeqs(<<DataFile("TN", 1, input.tn),
                                        DataFile("TX", 1, input.tx)>>) :
        output' = [output EXCEPT !.whole = [tag |-> "Ok", records |-> records]]
  /\ UNCHANGED input
  /\ LibraryUnchanged

\* process_data on an archive with the TN file and on one with the TX file,
\* then merge_records_by_key, the archive named by input.last joined last
ProcessSplit ==
  /\ output.split = SplitNotCalled
  /\ \E tn_records \in ArchiveRecordSeqs(<<DataFile("TN", 1, input.tn)>>),
        tx_records \in ArchiveRecordSeqs(<<DataFile("TX", 1, input.tx)>>) :
        LET merged ==
              MergeAllArchives(<<>>,
                               IF input.last = "TX"
                               THEN <<tn_records, tx_records>>
                               ELSE <<tx_records, tn_records>>)
        IN  /\ merged.tag = "Ok"
            /\ \E order \in Orders(DOMAIN merged.val) :
                  output' =
                    [output EXCEPT !.split =
                       [tag |-> "Ok",
                        records |-> FinishMerge(merged.val, order).records]]
  /\ UNCHANGED input
  /\ LibraryUnchanged

SplitNext == ProcessWhole \/ ProcessSplit

SplitSpec == SplitInit /\ [][SplitNext]_vars

BothProcessed == output.whole.tag = "Ok" /\ output.split.tag = "Ok"

KeysOf(records) == {RecordKey(r) : r \in Range(records)}

RecordAt(records, key) == CHOOSE r \in Range(records) : RecordKey(r) = key

MetricSlots ==
  {"temp_min", "temp_max", "temp_avg", "precipitation", "wind_speed"}

\* both ways give records for the same keys with the same slots
SameKeysAndSlots ==
  /\ KeysOf(output.split.records) = KeysOf(output.whole.records)
  /\ Len(output.split.records) = Len(output.whole.records)
  /\ \A key \in KeysOf(output.whole.records) :
        \A slot \in MetricSlots :
           RecordAt(output.split.records, key)[slot] =
             RecordAt(output.whole.records, key)[slot]

\* C29: an archive with only the TN file and another with only the TX
\* file of the same station, merged, give for every (station, date) the
\* same slots and the same temp_quality as one archive with both files.
C29_SplitEqualsWhole ==
  BothProcessed =>
    /\ SameKeysAndSlots
    /\ \A key \in KeysOf(output.whole.records) :
          RecordAt(output.split.records, key).temp_quality =
            RecordAt(output.whole.records, key).temp_quality

\* the flags of the rows of the file whose archive is joined last, or of
\* the other file when that one has no row
LastJoinedFlags ==
  LET flags(rows) == [i \in 1..Len(rows) |-> Unwrap(rows[i].flag)]
      last == IF input.last = "TX" THEN input.tx ELSE input.tn
      first == IF input.last = "TX" THEN input.tn ELSE input.tx
  IN  IF last # <<>> THEN flags(last) ELSE flags(first)

\* C29 as amended: the slots are the same, and the merged temp_quality is
\* the flag string of the archive joined last: the distinct flags of that
\* archive's rows alone.
C29_SplitKeepsSlotsLastFlags ==
  BothProcessed =>
    /\ SameKeysAndSlots
    /\ \A key \in KeysOf(output.split.records) :
          /\ IsSome(RecordAt(output.split.records, key).temp_quality)
          /\ IsFirstAppearance(
               Unwrap(RecordAt(output.split.records, key).temp_quality),
               LastJoinedFlags)

\* TN flagged 0 and TX flagged 1 on day 1: the single archive has both
\* temperatures and a two-character flag, the merged archives have both
\* temperatures and the flag 1 alone
C29_Witness ==
  /\ BothProcessed
  /\ input.last = "TX"
  /\ \E w \in Range(output.whole.records), s \in Range(output.split.records) :
        /\ RecordKey(w) = RecordKey(s)
        /\ IsSome(s.temp_min) /\ IsSome(s.temp_max)
        /\ s.temp_min = w.temp_min /\ s.temp_max = w.temp_max
        /\ Len(Unwrap(w.temp_quality)) = 2
        /\ s.temp_quality = Some(<<1>>)

====
